---- MODULE Spec2Model ----
(***************************************************************************)
(* The widgets of the Ironwood site:                                       *)
(*   - ScrollReveal     (src/assets/js/scroll-reveal.js)                   *)
(*   - CounterObserver  (src/assets/js/counter-animation.js)               *)
(*   - hero tabs        (src/assets/js/hero-tabs.js)                       *)
(*   - hero carousel    (src/assets/js/carousel.js)                        *)
(*   - TouchGesture     (src/assets/js/touch-gestures.js)                  *)
(*   - navigation       (src/assets/js/navigation.js, src/unnamed/part_003)*)
(* Each widget is modelled as a state machine whose actions are the        *)
(* constructor or script body, the public methods, the event listeners,    *)
(* the IntersectionObserver callback and the timer / animation-frame       *)
(* callbacks.  A specification loads one widget; the others stay idle.     *)
(*                                                                         *)
(* Time is discrete.  A pending setTimeout is a record carrying the time   *)
(* that remains before it is due (rem) and the time elapsed since it was   *)
(* scheduled (age).  A timer that is due runs before the clock advances,   *)
(* and due timers run in the order they were scheduled.                    *)
(***************************************************************************)
EXTENDS Integers, Sequences, FiniteSets, TLC

\* ------------------------------------------------------------------------
\* Bounds of the model
\* ------------------------------------------------------------------------
MaxBatch == 2      \* entries in one IntersectionObserver batch
MaxTimers == 3     \* pending setTimeout callbacks of the reveal engine
MaxEvents == 2     \* the counts of dispatched events saturate here
MaxObjs == 2       \* CounterAnimation objects created per page
MaxRafs == 2       \* pending animation-frame callbacks when start() is called

Elems == {"e1", "e2"}

Max(a, b) == IF a >= b THEN a ELSE b
Min(a, b) == IF a <= b THEN a ELSE b

\* ------------------------------------------------------------------------
\* ScrollReveal: state
\* ------------------------------------------------------------------------
VARIABLES
    options,        \* this.options: once, mobile, animationDuration, staggerDelay
    reducedMotion,  \* this.reducedMotion
    isMobile,       \* this.isMobile
    hasIO,          \* the host defines IntersectionObserver
    document,       \* the elements of the page, in DOM order
    phase,          \* "new" | "ready" | "failed" (the constructor threw)
    elements,       \* this.elements: Map element -> element data
    observer,       \* this.observer: "null" or "io"
    observed,       \* the observation targets of this.observer
    timers,         \* pending setTimeout callbacks, in scheduling order
    style,          \* element.style of every element
    cls,            \* element.classList.contains('revealed')
    events,         \* 'revealed' events dispatched on every element (saturating)
    destroyed,      \* destroy() has returned
    raised          \* the operations that have thrown an exception

revealVars == <<options, reducedMotion, isMobile, hasIO, document, phase,
                elements, observer, observed, timers, style, cls, events,
                destroyed, raised>>

\* ------------------------------------------------------------------------
\* CounterObserver / CounterAnimation: state
\* ------------------------------------------------------------------------
VARIABLES
    cOptions,       \* CounterObserver this.options: duration, easingFunction
    cHasIO,         \* the host defines IntersectionObserver
    cDocument,      \* the '.stat-number, [data-counter]' elements, in DOM order
    cPhase,         \* "new" | "ready" | "failed" (the constructor threw)
    objs,           \* the CounterAnimation objects created so far
    counters,       \* this.counters: Map element -> CounterAnimation (index in objs)
    cObserved,      \* the observation targets of this.observer
    cTimers,        \* pending setTimeout(() => counter.start(), 100), in order
    rafs,           \* pending requestAnimationFrame callbacks, in order
    text,           \* element.innerHTML / textContent of every counter element
    original,       \* element.dataset.original
    complete,       \* 'counterComplete' events dispatched (saturating)
    cDestroyed      \* CounterObserver.destroy() has returned

counterVars == <<cOptions, cHasIO, cDocument, cPhase, objs, counters, cObserved,
                 cTimers, rafs, text, original, complete, cDestroyed>>

\* ------------------------------------------------------------------------
\* The closure-scoped widgets: state
\* ------------------------------------------------------------------------
VARIABLES
    hero,           \* hero-tabs.js: the closure's variables and the DOM it writes
    carousel,       \* carousel.js: the closure's variables and the DOM it writes
    touch,          \* touch-gestures.js: one TouchGesture instance
    nav,            \* navigation.js: the menu, the header and the nav links
    rotator,        \* the older hero tabs script (setInterval auto-rotation)
    services        \* services-carousel.js: the closure's variables and the DOM

widgetVars == <<hero, carousel, touch, nav, rotator, services>>

vars == <<revealVars, counterVars, widgetVars>>

\* A page that does not load the widget's script.
Absent == [phase |-> "absent"]

WidgetsIdle ==
    /\ hero = Absent
    /\ carousel = Absent
    /\ touch = Absent
    /\ nav = Absent
    /\ rotator = Absent
    /\ services = Absent

CounterElems == {"c1", "c2"}

\* The counter engine before any page is loaded.
CounterIdle ==
    /\ cOptions = [duration |-> 0, easingFunction |-> ""]
    /\ cHasIO = FALSE
    /\ cDocument = << >>
    /\ cPhase = "new"
    /\ objs = << >>
    /\ counters = << >>
    /\ cObserved = {}
    /\ cTimers = << >>
    /\ rafs = << >>
    /\ text = [e \in CounterElems |-> << >>]
    /\ original = [e \in CounterElems |-> << >>]
    /\ complete = [e \in CounterElems |-> 0]
    /\ cDestroyed = FALSE

\* ------------------------------------------------------------------------
\* ScrollReveal: configuration and presets
\* ------------------------------------------------------------------------
\* CONFIG merged with the constructor's options.  Durations are in model
\* time units; the constructor accepts any value for them.
CtorOptions ==
    { [once |-> o, mobile |-> m, animationDuration |-> 2, staggerDelay |-> 1] :
        o \in BOOLEAN, m \in BOOLEAN }

Easing == "cubic-bezier(0.4, 0, 0.2, 1)"

ANIMATIONS ==
    [k \in {"fade-up", "fade-down", "fade-left", "fade-right", "fade",
            "zoom-in", "zoom-out", "flip-left", "flip-right"} |->
        CASE k = "fade-up" ->
               [initial |-> [opacity |-> "0", transform |-> "translateY(50px)"],
                animate |-> [opacity |-> "1", transform |-> "translateY(0)"]]
          [] k = "fade-down" ->
               [initial |-> [opacity |-> "0", transform |-> "translateY(-50px)"],
                animate |-> [opacity |-> "1", transform |-> "translateY(0)"]]
          [] k = "fade-left" ->
               [initial |-> [opacity |-> "0", transform |-> "translateX(-50px)"],
                animate |-> [opacity |-> "1", transform |-> "translateX(0)"]]
          [] k = "fade-right" ->
               [initial |-> [opacity |-> "0", transform |-> "translateX(50px)"],
                animate |-> [opacity |-> "1", transform |-> "translateX(0)"]]
          [] k = "fade" ->
               [initial |-> [opacity |-> "0"],
                animate |-> [opacity |-> "1"]]
          [] k = "zoom-in" ->
               [initial |-> [opacity |-> "0", transform |-> "scale(0.9)"],
                animate |-> [opacity |-> "1", transform |-> "scale(1)"]]
          [] k = "zoom-out" ->
               [initial |-> [opacity |-> "0", transform |-> "scale(1.1)"],
                animate |-> [opacity |-> "1", transform |-> "scale(1)"]]
          [] k = "flip-left" ->
               [initial |-> [opacity |-> "0",
                             transform |-> "perspective(2500px) rotateY(-100deg)"],
                animate |-> [opacity |-> "1",
                             transform |-> "perspective(2500px) rotateY(0)"]]
          [] k = "flip-right" ->
               [initial |-> [opacity |-> "0",
                             transform |-> "perspective(2500px) rotateY(100deg)"],
                animate |-> [opacity |-> "1",
                             transform |-> "perspective(2500px) rotateY(0)"]]]

\* ANIMATIONS is an object literal: besides its nine own properties, a lookup
\* finds the properties it inherits from Object.prototype.  Their values are
\* functions (or, for __proto__, an object): truthy, and without an initial or
\* an animate property.
InheritedKeys ==
    {"constructor", "toString", "valueOf", "hasOwnProperty", "__proto__"}

\* ANIMATIONS[animationType] || ANIMATIONS['fade-up'].  An undefined style-set
\* (spread in applyInitialStyles, source of Object.assign in reveal and hide)
\* contributes no property.
Animation(animationType) ==
    IF animationType \in DOMAIN ANIMATIONS
    THEN ANIMATIONS[animationType]
    ELSE IF animationType \in InheritedKeys
         THEN [initial |-> << >>, animate |-> << >>]
         ELSE ANIMATIONS["fade-up"]

\* Object.assign(target, source): the properties of source overwrite target's.
Assign(target, source) ==
    [p \in DOMAIN target |-> IF p \in DOMAIN source THEN source[p] ELSE target[p]]

\* The inline style of an element as authored: nothing set.
AuthoredStyle ==
    [opacity |-> "", transform |-> "",
     transition |-> [property |-> "", duration |-> 0, easing |-> ""],
     willChange |-> ""]

\* parseInt on the attribute values used in the model; "" is an absent or
\* non-numeric attribute (NaN).
IntOf ==
    [s \in {"-1", "0", "1", "2"} |->
        CASE s = "-1" -> -1 [] s = "0" -> 0 [] s = "1" -> 1 [] s = "2" -> 2]

\* parseInt(attr) || dflt
ParseIntOr(attr, dflt) ==
    IF attr \in DOMAIN IntOf /\ IntOf[attr] # 0 THEN IntOf[attr] ELSE dflt

\* The pages the engine is constructed on: the elements of the page the model
\* follows, in DOM order.  marked tells whether the element carries the
\* data-reveal attribute; the other fields are its data-reveal* attributes.
Documents ==
    { <<[el |-> "e1", marked |-> TRUE, reveal |-> "zoom-in", revealDelay |-> "2",
         revealDuration |-> "", revealStagger |-> ""]>>,
      <<[el |-> "e1", marked |-> FALSE, reveal |-> "", revealDelay |-> "",
         revealDuration |-> "", revealStagger |-> ""]>> }

\* The options objects passed to add().  0, "" and FALSE stand for an option
\* that is absent (undefined is falsy as they are).
AddOptions ==
    { [animation |-> "", delay |-> 0, duration |-> 0, stagger |-> FALSE],
      [animation |-> "fade-left", delay |-> 1, duration |-> 1, stagger |-> FALSE] }

\* ------------------------------------------------------------------------
\* ScrollReveal: helpers
\* ------------------------------------------------------------------------
\* applyInitialStyles(element, animation, duration)
applyInitialStyles(st, animation, duration) ==
    Assign(Assign(st, animation.initial),
           [transition |-> [property |-> "all", duration |-> duration,
                            easing |-> Easing],
            willChange |-> "opacity, transform"])

\* A delay computation that forgets the element's own delay.
TotalDelay_StaggerOnly(data) ==
    IF data.stagger
    THEN data.index * options.staggerDelay
    ELSE 0

\* A delay computation that staggers backwards: later indexes come first.
TotalDelay_ReverseStagger(data) ==
    IF data.stagger
    THEN data.delay - data.index * options.staggerDelay
    ELSE data.delay

\* The delay handleIntersection passes to setTimeout.
TotalDelay(data) ==
    IF data.stagger
    THEN data.delay + data.index * options.staggerDelay
    ELSE data.delay

\* setTimeout(callback, delay): a negative delay is a delay of 0.  The callback
\* closes over the element and its element data: animationType and duration
\* never change after the data object is created, and live tells whether that
\* object is still the one stored in this.elements.
NewTimer(el, kind, data, delay) ==
    [el |-> el, kind |-> kind, rem |-> Max(delay, 0), age |-> 0, live |-> TRUE,
     animationType |-> data.animationType, duration |-> data.duration]

\* hide(element, elementData) on the state s.
hide(s, el) ==
    [s EXCEPT !.style[el] = Assign(@, Animation(s.elements[el].animationType).initial),
              !.elements[el].revealed = FALSE,
              !.cls[el] = FALSE]

\* One entry of handleIntersection's forEach, on the state s.
HandleEntry(s, entry) ==
    IF entry.target \notin DOMAIN s.elements
    THEN s
    ELSE LET data == s.elements[entry.target] IN
         IF entry.isIntersecting /\ ~data.revealed
         THEN [s EXCEPT !.timers = Append(@, NewTimer(entry.target, "reveal", data,
                                                      TotalDelay(data))),
                        !.observed = IF options.once
                                     THEN @ \ {entry.target}
                                     ELSE @]
         ELSE IF ~entry.isIntersecting /\ ~options.once /\ data.revealed
              THEN hide(s, entry.target)
              ELSE s

RECURSIVE HandleEntries(_, _)
HandleEntries(s, entries) ==
    IF entries = <<>>
    THEN s
    ELSE HandleEntries(HandleEntry(s, Head(entries)), Tail(entries))

\* One element of discoverElements' forEach, on the state s.
DiscoverOne(s, node, index) ==
    IF ~node.marked \/ node.el \in DOMAIN s.elements
    THEN s
    ELSE LET animationType == IF node.reveal = "" THEN "fade-up" ELSE node.reveal
             animation == Animation(animationType)
             delay == ParseIntOr(node.revealDelay, 0)
             duration == ParseIntOr(node.revealDuration, options.animationDuration)
             data == [animationType |-> animationType,
                      delay |-> delay,
                      duration |-> duration,
                      stagger |-> (node.revealStagger = "true"),
                      index |-> index,
                      revealed |-> FALSE]
         IN [s EXCEPT !.elements = [e \in DOMAIN @ \cup {node.el} |->
                                       IF e = node.el THEN data ELSE @[e]],
                      !.style[node.el] = applyInitialStyles(@, animation, duration),
                      !.observed = @ \cup {node.el}]

\* The index forEach gives document[i] in querySelectorAll('[data-reveal]').
QueryIndex(i) == Cardinality({j \in 1..(i - 1) : document[j].marked})

RECURSIVE DiscoverFrom(_, _)
DiscoverFrom(s, i) ==
    IF i > Len(document)
    THEN s
    ELSE DiscoverFrom(DiscoverOne(s, document[i], QueryIndex(i)), i + 1)

\* The elements of the page.
PageElems == {document[i].el : i \in DOMAIN document}

\* The part of the state the forEach loops above work on.
Current ==
    [elements |-> elements, timers |-> timers, observed |-> observed,
     style |-> style, cls |-> cls]

RemoveAt(seq, i) == SubSeq(seq, 1, i - 1) \o SubSeq(seq, i + 1, Len(seq))

\* The element data captured by the pending callbacks of the dropped elements
\* are no longer the objects stored in this.elements.
Detach(ts, dropped) ==
    [i \in DOMAIN ts |-> IF ts[i].el \in dropped THEN [ts[i] EXCEPT !.live = FALSE]
                                                 ELSE ts[i]]

\* ------------------------------------------------------------------------
\* ScrollReveal: actions
\* ------------------------------------------------------------------------
Init ==
    /\ options \in CtorOptions
    /\ reducedMotion \in BOOLEAN
    /\ isMobile = ~options.mobile
    /\ hasIO \in BOOLEAN
    /\ document \in Documents
    /\ phase = "new"
    /\ elements = << >>
    /\ observer = "null"
    /\ observed = {}
    /\ timers = << >>
    /\ style = [e \in Elems |-> AuthoredStyle]
    /\ cls = [e \in Elems |-> FALSE]
    /\ events = [e \in Elems |-> 0]
    /\ destroyed = FALSE
    /\ raised = {}
    /\ CounterIdle
    /\ WidgetsIdle

\* new ScrollReveal(options): the constructor and init().
Construct ==
    /\ phase = "new"
    /\ IF reducedMotion \/ (isMobile /\ ~options.mobile)
       THEN /\ phase' = "ready"
            /\ UNCHANGED <<elements, observer, observed, style, raised>>
       ELSE IF ~hasIO
            THEN \* new IntersectionObserver(...) is a ReferenceError
                 /\ phase' = "failed"
                 /\ raised' = raised \cup {"constructor"}
                 /\ UNCHANGED <<elements, observer, observed, style>>
            ELSE LET s == DiscoverFrom(Current, 1) IN
                 /\ phase' = "ready"
                 /\ observer' = "io"
                 /\ elements' = s.elements
                 /\ observed' = s.observed
                 /\ style' = s.style
                 /\ UNCHANGED raised
    /\ UNCHANGED <<counterVars, widgetVars, options, reducedMotion, isMobile, hasIO, document, timers,
                   cls, events, destroyed>>

\* The batches the observer can deliver: entries for observation targets.
Entries == [target : Elems, isIntersecting : BOOLEAN]
Batches == UNION { [1..n -> Entries] : n \in 1..MaxBatch }

\* The IntersectionObserver callback: handleIntersection(entries).
handleIntersection(entries) ==
    /\ phase = "ready"
    /\ observer = "io"
    /\ \A i \in DOMAIN entries : entries[i].target \in observed
    /\ LET s == HandleEntries(Current, entries) IN
       /\ Len(s.timers) <= MaxTimers
       /\ elements' = s.elements
       /\ timers' = s.timers
       /\ observed' = s.observed
       /\ style' = s.style
       /\ cls' = s.cls
    /\ UNCHANGED <<counterVars, widgetVars, options, reducedMotion, isMobile, hasIO, document, phase,
                   observer, events, destroyed, raised>>

\* reveal(element, elementData), run by the timer handleIntersection set.
reveal(i) ==
    LET t == timers[i] IN
    /\ style' = [style EXCEPT ![t.el] = Assign(@, Animation(t.animationType).animate)]
    /\ elements' = IF t.live
                   THEN [elements EXCEPT ![t.el].revealed = TRUE]
                   ELSE elements
    /\ cls' = [cls EXCEPT ![t.el] = TRUE]
    /\ events' = [events EXCEPT ![t.el] = Min(@ + 1, MaxEvents)]
    /\ timers' = Append(RemoveAt(timers, i),
                        [t EXCEPT !.kind = "cleanup", !.rem = Max(t.duration, 0),
                                  !.age = 0])

\* The callback reveal() sets: element.style.willChange = 'auto'.
cleanup(i) ==
    LET t == timers[i] IN
    /\ style' = [style EXCEPT ![t.el].willChange = "auto"]
    /\ timers' = RemoveAt(timers, i)
    /\ UNCHANGED <<elements, cls, events>>

\* A pending timer that is due runs; due timers run in scheduling order.
FireTimer(i) ==
    /\ i \in DOMAIN timers
    /\ timers[i].rem = 0
    /\ \A j \in 1..(i - 1) : timers[j].rem > 0
    /\ IF timers[i].kind = "reveal" THEN reveal(i) ELSE cleanup(i)
    /\ UNCHANGED <<counterVars, widgetVars, options, reducedMotion, isMobile, hasIO, document, phase,
                   observer, observed, destroyed, raised>>

\* One unit of time passes; no pending timer is due.
Tick ==
    /\ timers # << >>
    /\ \A i \in DOMAIN timers : timers[i].rem > 0
    /\ timers' = [i \in DOMAIN timers |->
                     [timers[i] EXCEPT !.rem = @ - 1, !.age = @ + 1]]
    /\ UNCHANGED <<counterVars, widgetVars, options, reducedMotion, isMobile, hasIO, document, phase,
                   elements, observer, observed, style, cls, events,
                   destroyed, raised>>

\* An add() without the membership test: it registers the element again.
add_Reregister(element, o) ==
    /\ phase = "ready"
    /\ observer = "io"
    /\ elements' = [e \in DOMAIN elements \cup {element} |->
                       IF e = element
                       THEN [animationType |-> IF o.animation = "" THEN "fade-up"
                                                                  ELSE o.animation,
                             delay |-> o.delay,
                             duration |-> IF o.duration = 0
                                          THEN options.animationDuration
                                          ELSE o.duration,
                             stagger |-> o.stagger,
                             index |-> Cardinality(DOMAIN elements),
                             revealed |-> FALSE]
                       ELSE elements[e]]
    /\ style' = [style EXCEPT
                    ![element] = applyInitialStyles(@,
                                     Animation(elements'[element].animationType),
                                     elements'[element].duration)]
    /\ observed' = observed \cup {element}
    /\ UNCHANGED <<counterVars, widgetVars, options, reducedMotion, isMobile, hasIO, document, phase,
                   observer, timers, cls, events, destroyed, raised>>

\* add(element, options)
add(element, o) ==
    /\ phase = "ready"
    /\ IF element \in DOMAIN elements
       THEN UNCHANGED <<elements, style, observed, raised>>
       ELSE LET animationType == IF o.animation = "" THEN "fade-up" ELSE o.animation
                animation == Animation(animationType)
                duration == IF o.duration = 0 THEN options.animationDuration
                                              ELSE o.duration
                data == [animationType |-> animationType,
                         delay |-> o.delay,
                         duration |-> duration,
                         stagger |-> o.stagger,
                         index |-> Cardinality(DOMAIN elements),
                         revealed |-> FALSE]
            IN /\ elements' = [e \in DOMAIN elements \cup {element} |->
                                  IF e = element THEN data ELSE elements[e]]
               /\ style' = [style EXCEPT
                               ![element] = applyInitialStyles(@, animation, duration)]
               /\ IF observer = "null"
                  THEN \* this.observer.observe on null is a TypeError
                       /\ raised' = raised \cup {"add"}
                       /\ UNCHANGED observed
                  ELSE /\ observed' = observed \cup {element}
                       /\ UNCHANGED raised
    /\ UNCHANGED <<counterVars, widgetVars, options, reducedMotion, isMobile, hasIO, document, phase,
                   observer, timers, cls, events, destroyed>>

\* remove(element)
remove(element) ==
    /\ phase = "ready"
    /\ IF element \in DOMAIN elements
       THEN IF observer = "null"
            THEN \* this.observer.unobserve on null is a TypeError
                 /\ raised' = raised \cup {"remove"}
                 /\ UNCHANGED <<elements, observed, timers>>
            ELSE /\ observed' = observed \ {element}
                 /\ elements' = [e \in DOMAIN elements \ {element} |-> elements[e]]
                 /\ timers' = Detach(timers, {element})
                 /\ UNCHANGED raised
       ELSE UNCHANGED <<elements, observed, timers, raised>>
    /\ UNCHANGED <<counterVars, widgetVars, options, reducedMotion, isMobile, hasIO, document, phase,
                   observer, style, cls, events, destroyed>>

RECURSIVE HideAll(_, _)
HideAll(s, todo) ==
    IF todo = {}
    THEN s
    ELSE LET el == CHOOSE e \in todo : TRUE IN HideAll(hide(s, el), todo \ {el})

\* reset()
reset ==
    /\ phase = "ready"
    /\ LET s == HideAll(Current, DOMAIN elements) IN
       /\ elements' = s.elements
       /\ style' = s.style
       /\ cls' = s.cls
    /\ UNCHANGED <<counterVars, widgetVars, options, reducedMotion, isMobile, hasIO, document, phase,
                   observer, observed, timers, events, destroyed, raised>>

\* destroy()
destroy ==
    /\ phase = "ready"
    /\ observed' = {}
    /\ elements' = << >>
    /\ timers' = Detach(timers, Elems)
    /\ destroyed' = TRUE
    /\ UNCHANGED <<counterVars, widgetVars, options, reducedMotion, isMobile, hasIO, document, phase,
                   observer, style, cls, events, raised>>

\* A call of discoverElements() in the state s: the state it leaves, and
\* whether it threw.
DiscoverCall(s) ==
    IF observer = "io"
    THEN [state |-> DiscoverFrom(s, 1), threw |-> FALSE]
    ELSE LET todo == {i \in DOMAIN document :
                         document[i].marked /\ document[i].el \notin DOMAIN s.elements}
         IN IF todo = {}
            THEN [state |-> s, threw |-> FALSE]
            ELSE \* the first untracked element is stored and styled, then
                 \* this.observer.observe on null is a TypeError
                 LET i == CHOOSE k \in todo : \A j \in todo : k <= j
                     d == DiscoverOne(s, document[i], QueryIndex(i))
                 IN [state |-> [d EXCEPT !.observed = s.observed], threw |-> TRUE]

\* discoverElements(), called again on the instance.
discoverElements ==
    /\ phase = "ready"
    /\ LET call == DiscoverCall(Current) IN
       /\ elements' = call.state.elements
       /\ observed' = call.state.observed
       /\ style' = call.state.style
       /\ raised' = IF call.threw THEN raised \cup {"discoverElements"} ELSE raised
    /\ UNCHANGED <<counterVars, widgetVars, options, reducedMotion, isMobile, hasIO, document, phase,
                   observer, timers, cls, events, destroyed>>

Next ==
    \/ Construct
    \/ discoverElements
    \/ \E element \in PageElems, o \in AddOptions : add(element, o)
    \/ \E element \in PageElems : remove(element)
    \/ reset
    \/ destroy
    \/ \E entries \in Batches : handleIntersection(entries)
    \/ \E i \in 1..MaxTimers : FireTimer(i)
    \/ Tick

Spec == Init /\ [][Next]_vars

\* Timers fire and time passes as long as the page lives.
FairSpec == Spec /\ WF_vars(Tick) /\ WF_vars(\E i \in 1..MaxTimers : FireTimer(i))

\* ------------------------------------------------------------------------
\* ScrollReveal: properties
\* ------------------------------------------------------------------------
\* The pending reveal timers of element e.
PendingReveals(e) ==
    {i \in DOMAIN timers : timers[i].kind = "reveal" /\ timers[i].el = e}

\* Element e shows the hidden "initial" style-set of some preset.
Hidden(e) == style[e].opacity = "0"

\* C1: with once = true, the 'revealed' event is dispatched at most once on
\* every element.
C1_RevealedAtMostOnce ==
    options.once => \A e \in Elems : events[e] <= 1

\* C2: with the reduced-motion preference active, no element is observed and
\* no element's style is changed, whatever calls of add, remove, reset and
\* destroy are made.
C2_ReducedMotionInert ==
    (reducedMotion /\ "discoverElements" \notin raised)
        => (observed = {} /\ \A e \in Elems : style[e] = AuthoredStyle)

\* C3: once destroy() has returned, a timer that was pending when it was
\* called changes no element's style or class and dispatches no event.
C3_DestroyCancelsTimers ==
    [][(destroyed /\ \E i \in DOMAIN timers : ~timers[i].live /\ FireTimer(i))
          => UNCHANGED <<style, cls, events>>]_vars

\* C5: no public operation of the instance (add, remove, reset, destroy)
\* throws, in any state of the engine.
C5_PublicApiTotal ==
    raised \cap {"add", "remove", "reset", "destroy"} = {}

\* C6: without IntersectionObserver the constructor does not fail, and no
\* element discovered on the page is left in its hidden initial state.
C6_NoObserverFallback ==
    (~hasIO /\ phase # "new") =>
        /\ phase = "ready"
        /\ "constructor" \notin raised
        /\ \A i \in DOMAIN document :
              document[i].marked /\ document[i].el \in DOMAIN elements
                  => ~Hidden(document[i].el)

\* C7: from remove(element) until the element is added again, the engine
\* changes neither its style nor its class and dispatches no event on it.
C7_RemovedIsUntouched ==
    [][\A e \in Elems :
          (~destroyed /\ e \notin DOMAIN elements /\ e \notin DOMAIN elements')
              => (style'[e] = style[e] /\ cls'[e] = cls[e] /\ events'[e] = events[e])
      ]_vars

\* C8: a tracked element has at most one pending delayed reveal, and a reveal
\* is applied only to an element that is not revealed (HIDDEN -> PENDING ->
\* REVEALED, back to HIDDEN only through hide).
C8_StateMachine ==
    /\ [](\A e \in DOMAIN elements : Cardinality(PendingReveals(e)) <= 1)
    /\ [][\A i \in DOMAIN timers :
            (timers[i].kind = "reveal" /\ timers[i].live /\ FireTimer(i))
                => ~elements[timers[i].el].revealed]_vars

\* C9: reset() leaves every tracked element as it was just after registration:
\* not revealed, initial style-set, no 'revealed' class, observed, and with no
\* reveal pending from before the call.
C9_ResetRestoresPreReveal ==
    [][reset =>
          \A e \in DOMAIN elements' :
              /\ ~elements'[e].revealed
              /\ style'[e].opacity = "0"
              /\ ~cls'[e]
              /\ (observer = "io" => e \in observed')
              /\ \A i \in DOMAIN timers' :
                    ~(timers'[i].kind = "reveal" /\ timers'[i].el = e)
      ]_vars

\* Timer i is a pending reveal of a tracked element without stagger, and runs.
RevealRuns(i) ==
    /\ timers[i].kind = "reveal"
    /\ timers[i].live
    /\ ~elements[timers[i].el].stagger
    /\ FireTimer(i)

\* A reveal is pending for the tracked element e.
RevealPending(e) ==
    \E i \in PendingReveals(e) : timers[i].live

\* The animate style-set is applied to e, which carries the 'revealed' class
\* and is marked revealed.
Revealed(e) ==
    /\ e \in DOMAIN elements
    /\ elements[e].revealed
    /\ style[e].opacity = "1"
    /\ cls[e]

\* Every pending reveal of a tracked element is applied, unless the element
\* is removed or the engine destroyed first.
RevealEventuallyApplied ==
    \A e \in Elems :
        [](RevealPending(e) => <>(Revealed(e) \/ e \notin DOMAIN elements))

RegistryOptions ==
    { [once |-> o, mobile |-> TRUE, animationDuration |-> 2, staggerDelay |-> 1] :
        o \in BOOLEAN }

\* Pages with two marked elements: two staggered elements with the same delay;
\* and markers that name no preset together with negative and zero values of
\* the delay and duration attributes.
RegistryDocuments ==
    { <<[el |-> "e1", marked |-> TRUE, reveal |-> "zoom-in", revealDelay |-> "1",
         revealDuration |-> "", revealStagger |-> "true"],
        [el |-> "e2", marked |-> TRUE, reveal |-> "", revealDelay |-> "1",
         revealDuration |-> "", revealStagger |-> "true"]>>,
      <<[el |-> "e1", marked |-> TRUE, reveal |-> "constructor", revealDelay |-> "-1",
         revealDuration |-> "-1", revealStagger |-> ""],
        [el |-> "e2", marked |-> TRUE, reveal |-> "bounce", revealDelay |-> "0",
         revealDuration |-> "0", revealStagger |-> ""]>> }

\* The options objects passed to add() on these pages.
RegistryAddOptions ==
    { [animation |-> "", delay |-> 0, duration |-> 0, stagger |-> FALSE],
      [animation |-> "toString", delay |-> -1, duration |-> -1, stagger |-> TRUE] }

RegistryInit ==
    /\ options \in RegistryOptions
    /\ reducedMotion \in BOOLEAN
    /\ isMobile = FALSE
    /\ hasIO = TRUE
    /\ document \in RegistryDocuments
    /\ phase = "new"
    /\ elements = << >>
    /\ observer = "null"
    /\ observed = {}
    /\ timers = << >>
    /\ style = [e \in Elems |-> AuthoredStyle]
    /\ cls = [e \in Elems |-> FALSE]
    /\ events = [e \in Elems |-> 0]
    /\ destroyed = FALSE
    /\ raised = {}
    /\ CounterIdle
    /\ WidgetsIdle

RegistryNext ==
    \/ Construct
    \/ discoverElements
    \/ \E element \in PageElems, o \in RegistryAddOptions : add(element, o)
    \/ \E element \in PageElems : remove(element)

\* The registry under discoverElements, add and remove.
SpecRegistry == RegistryInit /\ [][RegistryNext]_vars

\* The same pages, constructed without the reduced-motion preference, with
\* the observer's reports and the timers.
StaggerInit ==
    /\ RegistryInit
    /\ ~reducedMotion

StaggerNext ==
    \/ Construct
    \/ \E entries \in Batches : handleIntersection(entries)
    \/ \E i \in 1..MaxTimers : FireTimer(i)
    \/ Tick

SpecStagger == StaggerInit /\ [][StaggerNext]_vars

\* C11: an element that is registered receives an index greater than the index
\* of every element registered before it that is still in the registry.
C11_LaterRegisteredLargerIndex ==
    [][\A e \in DOMAIN elements' \ DOMAIN elements :
          \A f \in DOMAIN elements \cap DOMAIN elements' :
              elements'[e].index > elements'[f].index]_vars

\* Tracked elements e and f are staggered, have the same delay, and e has the
\* smaller index.
StaggerPair(e, f) ==
    /\ e \in DOMAIN elements
    /\ f \in DOMAIN elements
    /\ elements[e].stagger
    /\ elements[f].stagger
    /\ elements[e].delay = elements[f].delay
    /\ elements[e].index < elements[f].index

\* C12: of two staggered elements with the same delay, the one with the
\* smaller index has the smaller or equal effective delay; when both are
\* reported visible at the same time (their pending reveals have the same
\* age) its reveal is due no later, and the other's reveal is never applied
\* while its own still has time to wait.
C12_StaggerMonotone ==
    /\ [](\A e \in Elems, f \in Elems :
            StaggerPair(e, f) =>
                /\ TotalDelay(elements[e]) <= TotalDelay(elements[f])
                /\ \A i \in PendingReveals(e), j \in PendingReveals(f) :
                      (timers[i].live /\ timers[j].live
                          /\ timers[i].age = timers[j].age)
                      => timers[i].rem <= timers[j].rem)
    /\ [][\A e \in Elems, f \in Elems :
            \A i \in PendingReveals(e), j \in PendingReveals(f) :
                (StaggerPair(e, f) /\ timers[i].live /\ timers[j].live
                     /\ timers[i].age = timers[j].age /\ FireTimer(j))
                => timers[i].rem = 0]_vars

\* The staggered element with the smaller index is revealed while the reveal
\* of the other one, reported visible with it, still waits.
C12_Witness ==
    \E e \in Elems, f \in Elems :
        /\ StaggerPair(e, f)
        /\ Revealed(e)
        /\ events[e] >= 1
        /\ \E j \in PendingReveals(f) : timers[j].live /\ timers[j].rem > 0

\* C13: in every state of a constructed engine, a call of discoverElements()
\* that follows another one on the same document changes nothing: the
\* registry, the styles and the observation targets stay as the first call
\* left them.
C13_DiscoverIdempotent ==
    phase = "ready" =>
        LET first == DiscoverCall(Current).state
        IN DiscoverCall(first).state = first

\* C14: add(element, options) for a registered element leaves its entry, its
\* style, its class and the observation targets unchanged, for every options
\* object.
C14_AddRegisteredNoOp ==
    [][\A element \in PageElems, o \in RegistryAddOptions :
          (element \in DOMAIN elements /\ add(element, o))
              => UNCHANGED <<elements, style, cls, observed>>]_vars

\* Both elements of the page are registered and observed, one of them with an
\* entry that add() writes for none of its options objects.
C14_Witness ==
    /\ observer = "io"
    /\ DOMAIN elements = PageElems
    /\ observed = PageElems
    /\ \E e \in DOMAIN elements :
          /\ elements[e].animationType = "zoom-in"
          /\ style[e].transform = "scale(0.9)"

\* C15: every entry of the registry has a delay that is not negative and a
\* duration that is positive.
C15_DelayAndDurationInRange ==
    \A e \in DOMAIN elements :
        elements[e].delay >= 0 /\ elements[e].duration > 0

\* C16: an element registered with a kind that is none of the nine presets
\* gets the fade-up initial style-set when it is registered and the fade-up
\* animate style-set when it is revealed.
C16_UnknownKindIsFadeUp ==
    [][/\ \A e \in DOMAIN elements' \ DOMAIN elements :
             elements'[e].animationType \notin DOMAIN ANIMATIONS
                 => /\ style'[e].opacity = "0"
                    /\ style'[e].transform = "translateY(50px)"
       /\ \A i \in DOMAIN timers :
             (timers[i].kind = "reveal"
                 /\ timers[i].animationType \notin DOMAIN ANIMATIONS
                 /\ FireTimer(i))
             => /\ style'[timers[i].el].opacity = "1"
                /\ style'[timers[i].el].transform = "translateY(0)"]_vars

\* ------------------------------------------------------------------------
\* CounterAnimation: parsing and formatting
\* ------------------------------------------------------------------------
\* Text is a sequence of characters; the markup updateDisplay appends for the
\* plus sign is one token.
DigitChars == <<"0", "1", "2", "3", "4", "5", "6", "7", "8", "9">>
IsDigit(c) == \E k \in 1..10 : DigitChars[k] = c
DigitOf(c) == (CHOOSE k \in 1..10 : DigitChars[k] = c) - 1
Letters == {"K", "M", "B", "k", "m", "x", "N", "A"}
PlusSpan == "<span class=\"stat-plus\">+</span>"

RECURSIVE Pow10(_)
Pow10(k) == IF k = 0 THEN 1 ELSE 10 * Pow10(k - 1)

\* The number the digits of str denote.
RECURSIVE NumberOf(_)
NumberOf(str) ==
    IF str = << >> THEN 0
    ELSE 10 * NumberOf(SubSeq(str, 1, Len(str) - 1)) + DigitOf(str[Len(str)])

\* The longest prefix of str made of digits.
RECURSIVE DigitPrefix(_)
DigitPrefix(str) ==
    IF str # << >> /\ IsDigit(Head(str))
    THEN <<Head(str)>> \o DigitPrefix(Tail(str))
    ELSE << >>

\* parseValue(str): str.replace(/[^0-9.]/g, '') then parseFloat(cleaned) || 0,
\* as the fraction n / d.
parseValue(str) ==
    LET cleaned == SelectSeq(str, LAMBDA c : IsDigit(c) \/ c = ".")
        int == DigitPrefix(cleaned)
        rest == SubSeq(cleaned, Len(int) + 1, Len(cleaned))
        frac == IF rest # << >> /\ Head(rest) = "."
                THEN DigitPrefix(Tail(rest))
                ELSE << >>
    IN [n |-> NumberOf(int) * Pow10(Len(frac)) + NumberOf(frac),
        d |-> Pow10(Len(frac))]

\* extractSuffix(str): the match of /[A-Za-z]+$/, or ''.
RECURSIVE extractSuffix(_)
extractSuffix(str) ==
    IF str # << >> /\ str[Len(str)] \in Letters
    THEN extractSuffix(SubSeq(str, 1, Len(str) - 1)) \o <<str[Len(str)]>>
    ELSE << >>

\* The decimal digits of k, grouped by three with commas.
Grouped[k \in Nat] ==
    IF k < 1000
    THEN IF k < 10 THEN <<DigitChars[k + 1]>>
         ELSE Grouped[k \div 10] \o <<DigitChars[(k % 10) + 1]>>
    ELSE Grouped[k \div 1000] \o <<",", DigitChars[((k \div 100) % 10) + 1],
                                   DigitChars[((k \div 10) % 10) + 1],
                                   DigitChars[(k % 10) + 1]>>

\* A formatNumber that rounds to the nearest integer instead of flooring.
formatNumber_Round(num) == Grouped[(2 * num.n + num.d) \div (2 * num.d)]

\* formatNumber(num): Math.floor(num).toLocaleString('en-US'), num = n / d >= 0.
formatNumber(num) == Grouped[num.n \div num.d]

\* An easing table whose curves overshoot: t * (3 - 2t) is 9/8 at t = 3/4.
Ease_Overshoot(name, e, D) == [n |-> e * (3 * D - 2 * e), d |-> D * D]

\* An easing table whose easeInOutQuad ends its second half at 3/4: the
\* constant of -1 + (4 - 2t) t is mistyped.
Ease_WrongEnd(name, e, D) ==
    IF name = "easeInOutQuad" /\ 2 * e >= D
    THEN [n |-> (4 * D - 2 * e) * e * 4 - 5 * D * D, d |-> 4 * D * D]
    ELSE IF name = "linear" THEN [n |-> e, d |-> D]
    ELSE [n |-> e * (2 * D - e), d |-> D * D]

\* easingFunctions[name](t) for t = e / D, as a fraction; an unknown name is
\* easeOutQuad.  easingFunctions is an object literal: the name "constructor"
\* finds Object, inherited from Object.prototype, and Object(t) is a Number
\* object that multiplies as t does.
Ease(name, e, D) ==
    CASE name = "linear" \/ name = "constructor" -> [n |-> e, d |-> D]
      [] name = "easeInQuad" -> [n |-> e * e, d |-> D * D]
      [] name = "easeInOutQuad" ->
            IF 2 * e < D THEN [n |-> 2 * e * e, d |-> D * D]
            ELSE [n |-> (4 * D - 2 * e) * e - D * D, d |-> D * D]
      [] name = "easeInCubic" -> [n |-> e * e * e, d |-> D * D * D]
      [] name = "easeOutCubic" ->
            [n |-> (e - D) * (e - D) * (e - D) + D * D * D, d |-> D * D * D]
      [] name = "easeInOutCubic" ->
            IF 2 * e < D THEN [n |-> 4 * e * e * e, d |-> D * D * D]
            ELSE [n |-> 4 * (e - D) * (e - D) * (e - D) + D * D * D,
                  d |-> D * D * D]
      [] OTHER -> [n |-> e * (2 * D - e), d |-> D * D]

\* updateDisplay(value) of counter c: the new innerHTML.
updateDisplay(c, value) ==
    formatNumber(value)
        \o c.hasSuffix
        \o (IF c.hasPlus /\ value.n * c.targetValue.d >= c.targetValue.n * value.d
            THEN <<PlusSpan>> ELSE << >>)

\* new CounterAnimation(element, options), for an element showing str.
NewCounter(element, str, opts) ==
    [element |-> element,
     duration |-> opts.duration,
     easingFunction |-> opts.easingFunction,
     targetValue |-> parseValue(str),
     hasPlus |-> (\E k \in DOMAIN str : str[k] = "+"),
     hasSuffix |-> extractSuffix(str),
     currentValue |-> [n |-> 0, d |-> 1],
     startTime |-> "null",
     elapsed |-> 0,
     animationFrame |-> "null",
     hasAnimated |-> FALSE]

\* ------------------------------------------------------------------------
\* CounterObserver: configuration
\* ------------------------------------------------------------------------
\* CONFIG merged with the constructor's options.  The duration is in model
\* time units (a power of two, so that every eased value is exact in floating
\* point as well).
CounterOptions ==
    { [duration |-> 4, easingFunction |-> "easeOutCubic"] }

\* The time that passes between two animation frames.
FrameSteps == {1, 2}

\* The pages: the counter elements in DOM order with their text.
CounterDocuments ==
    { <<[el |-> "c1", text |-> <<"4", "2">>]>>,
      <<[el |-> "c1", text |-> <<"1", ",", "5", "0", "0", "+">>]>> }

\* The scroll-reveal engine of a page that does not load it.
RevealIdle ==
    /\ options = [once |-> TRUE, mobile |-> TRUE, animationDuration |-> 0,
                  staggerDelay |-> 0]
    /\ reducedMotion = FALSE
    /\ isMobile = FALSE
    /\ hasIO = FALSE
    /\ document = << >>
    /\ phase = "new"
    /\ elements = << >>
    /\ observer = "null"
    /\ observed = {}
    /\ timers = << >>
    /\ style = [e \in Elems |-> AuthoredStyle]
    /\ cls = [e \in Elems |-> FALSE]
    /\ events = [e \in Elems |-> 0]
    /\ destroyed = FALSE
    /\ raised = {}

\* ------------------------------------------------------------------------
\* CounterAnimation: methods, on the state cs = [objs, rafs, text, complete]
\* ------------------------------------------------------------------------
CounterState == [objs |-> objs, rafs |-> rafs, text |-> text, complete |-> complete]

\* this.animationFrame = requestAnimationFrame(...): the new callback is the
\* one this.animationFrame names; older pending callbacks of o no longer are.
RequestFrame(cs, o) ==
    [cs EXCEPT !.rafs = Append([k \in DOMAIN @ |->
                                   IF @[k].obj = o THEN [@[k] EXCEPT !.current = FALSE]
                                                   ELSE @[k]],
                               [obj |-> o, current |-> TRUE]),
               !.objs[o].animationFrame = "set"]

\* start()
start(cs, o) ==
    IF cs.objs[o].hasAnimated
    THEN cs
    ELSE RequestFrame([cs EXCEPT !.objs[o].currentValue = [n |-> 0, d |-> 1],
                                 !.objs[o].startTime = "null"], o)

\* stop(): cancelAnimationFrame(this.animationFrame) cancels the callback that
\* id names if it is still pending.
stop(cs, o) ==
    IF cs.objs[o].animationFrame = "null"
    THEN cs
    ELSE [cs EXCEPT !.rafs = SelectSeq(@, LAMBDA r : ~(r.obj = o /\ r.current)),
                    !.objs[o].animationFrame = "null"]

\* reset()
counterReset(cs, o) ==
    LET c1 == stop(cs, o) IN
    [c1 EXCEPT !.objs[o].hasAnimated = FALSE,
               !.objs[o].currentValue = [n |-> 0, d |-> 1],
               !.text[c1.objs[o].element] = <<"0">>]

\* A finish() that forgets to mark the counter as animated.
finish_NotMarked(cs, o) ==
    [cs EXCEPT !.text[cs.objs[o].element] =
                   updateDisplay(cs.objs[o], cs.objs[o].targetValue),
               !.complete[cs.objs[o].element] = Min(@ + 1, MaxEvents)]

\* finish()
finish(cs, o) ==
    LET c == cs.objs[o] IN
    [cs EXCEPT !.text[c.element] = updateDisplay(c, c.targetValue),
               !.objs[o].hasAnimated = TRUE,
               !.complete[c.element] = Min(@ + 1, MaxEvents)]

\* animate(timestamp): the first frame of a run fixes startTime; elapsed is
\* timestamp - startTime, kept up to the duration (progress is capped at 1).
animate(cs, o) ==
    LET c == cs.objs[o]
        elapsed == IF c.startTime = "null" THEN 0 ELSE c.elapsed
        progress == Min(elapsed, c.duration)
        eased == Ease(c.easingFunction, progress, c.duration)
        value == [n |-> c.targetValue.n * eased.n, d |-> c.targetValue.d * eased.d]
        c1 == [cs EXCEPT !.objs[o].startTime = "set",
                         !.objs[o].elapsed = elapsed,
                         !.objs[o].currentValue = value,
                         !.text[c.element] = updateDisplay(c, value)]
    IN IF progress < c.duration THEN RequestFrame(c1, o) ELSE finish(c1, o)

\* The callbacks of one animation frame, in the order they were requested.
RECURSIVE RunFrame(_, _)
RunFrame(cs, callbacks) ==
    IF callbacks = << >>
    THEN cs
    ELSE \* s is the state the callbacks before this one have left
         CHOOSE r \in { RunFrame(animate(s, Head(callbacks).obj), Tail(callbacks)) :
                           s \in {cs} } : TRUE

\* ------------------------------------------------------------------------
\* CounterObserver: actions
\* ------------------------------------------------------------------------
\* element.textContent for the innerHTML html: the plus marker's markup reads
\* as its text, '+'.
TextContent(html) ==
    [k \in DOMAIN html |-> IF html[k] = PlusSpan THEN "+" ELSE html[k]]

\* One element of discoverCounters' forEach, on the observer's state.
CDiscoverOne(s, node, opts) ==
    IF node.el \in DOMAIN s.counters
    THEN s
    ELSE [s EXCEPT !.objs = Append(@, NewCounter(node.el, TextContent(s.text[node.el]),
                                                 opts)),
                   !.original[node.el] = TextContent(s.text[node.el]),
                   !.counters = [e \in DOMAIN @ \cup {node.el} |->
                                    IF e = node.el THEN Len(s.objs) + 1 ELSE @[e]],
                   !.observed = @ \cup {node.el}]

RECURSIVE CDiscoverFrom(_, _)
CDiscoverFrom(s, i) ==
    IF i > Len(cDocument)
    THEN s
    ELSE CDiscoverFrom(CDiscoverOne(s, cDocument[i], cOptions), i + 1)

ObserverState ==
    [objs |-> objs, counters |-> counters, observed |-> cObserved,
     text |-> text, original |-> original, timers |-> cTimers]

\* The page is loaded with one of the documents docs, and the observer will be
\* constructed with one of the options opts.
CounterPage(opts, docs) ==
    /\ RevealIdle
    /\ WidgetsIdle
    /\ cOptions \in opts
    /\ cHasIO \in BOOLEAN
    /\ cDocument \in docs
    /\ cPhase = "new"
    /\ objs = << >>
    /\ counters = << >>
    /\ cObserved = {}
    /\ cTimers = << >>
    /\ rafs = << >>
    /\ text = [e \in CounterElems |->
                 IF \E i \in DOMAIN cDocument : cDocument[i].el = e
                 THEN cDocument[CHOOSE i \in DOMAIN cDocument : cDocument[i].el = e].text
                 ELSE << >>]
    /\ original = [e \in CounterElems |-> << >>]
    /\ complete = [e \in CounterElems |-> 0]
    /\ cDestroyed = FALSE

\* The page is loaded with one of the documents docs.
CounterInit(docs) == CounterPage(CounterOptions, docs)

CInit == CounterInit(CounterDocuments)

\* new CounterObserver(options): the constructor and init().
CConstruct ==
    /\ cPhase = "new"
    /\ IF ~cHasIO
       THEN \* new IntersectionObserver(...) is a ReferenceError
            /\ cPhase' = "failed"
            /\ UNCHANGED <<objs, counters, cObserved, original>>
       ELSE LET s == CDiscoverFrom(ObserverState, 1) IN
            /\ cPhase' = "ready"
            /\ objs' = s.objs
            /\ counters' = s.counters
            /\ cObserved' = s.observed
            /\ original' = s.original
    /\ UNCHANGED <<revealVars, widgetVars, cOptions, cHasIO, cDocument, cTimers, rafs, text,
                   complete, cDestroyed>>

\* One entry of CounterObserver.handleIntersection's forEach.
CHandleEntry(s, entry) ==
    IF /\ entry.isIntersecting
       /\ entry.target \in DOMAIN s.counters
       /\ ~s.objs[s.counters[entry.target]].hasAnimated
    THEN [s EXCEPT !.timers = Append(@, s.counters[entry.target]),
                   !.observed = @ \ {entry.target}]
    ELSE s

RECURSIVE CHandleEntries(_, _)
CHandleEntries(s, entries) ==
    IF entries = << >>
    THEN s
    ELSE CHandleEntries(CHandleEntry(s, Head(entries)), Tail(entries))

CEntries == [target : CounterElems, isIntersecting : BOOLEAN]
CBatches == UNION { [1..n -> CEntries] : n \in 1..MaxBatch }

\* The IntersectionObserver callback of the CounterObserver.
cHandleIntersection(entries) ==
    /\ cPhase = "ready"
    /\ \A i \in DOMAIN entries : entries[i].target \in cObserved
    /\ LET s == CHandleEntries(ObserverState, entries) IN
       /\ cTimers' = s.timers
       /\ cObserved' = s.observed
    /\ UNCHANGED <<revealVars, widgetVars, cOptions, cHasIO, cDocument, cPhase, objs, counters,
                   rafs, text, original, complete, cDestroyed>>

\* The 100 ms timer of handleIntersection runs: counter.start().
StartTimerFires ==
    /\ cTimers # << >>
    /\ LET cs == start(CounterState, Head(cTimers)) IN
       /\ objs' = cs.objs
       /\ rafs' = cs.rafs
    /\ cTimers' = Tail(cTimers)
    /\ UNCHANGED <<revealVars, widgetVars, cOptions, cHasIO, cDocument, cPhase, counters,
                   cObserved, text, original, complete, cDestroyed>>

\* An animation frame, dt after the previous one: the pending callbacks run.
AnimationFrame(dt) ==
    /\ rafs # << >>
    /\ LET aged == [o \in DOMAIN objs |->
                      IF objs[o].startTime = "set"
                      THEN [objs[o] EXCEPT !.elapsed = Min(@ + dt, objs[o].duration)]
                      ELSE objs[o]]
       IN \E cs \in {RunFrame([CounterState EXCEPT !.objs = aged, !.rafs = << >>], rafs)} :
          /\ objs' = cs.objs
          /\ rafs' = cs.rafs
          /\ text' = cs.text
          /\ complete' = cs.complete
    /\ UNCHANGED <<revealVars, widgetVars, cOptions, cHasIO, cDocument, cPhase, counters,
                   cObserved, cTimers, original, cDestroyed>>

\* addCounter(element, options), with no options.
addCounter(element) ==
    /\ cPhase = "ready"
    /\ Len(objs) < MaxObjs
    /\ LET s == CDiscoverOne(ObserverState, [el |-> element], cOptions) IN
       /\ objs' = s.objs
       /\ counters' = s.counters
       /\ cObserved' = s.observed
       /\ original' = s.original
    /\ UNCHANGED <<revealVars, widgetVars, cOptions, cHasIO, cDocument, cPhase, cTimers, rafs,
                   text, complete, cDestroyed>>

\* removeCounter(element)
removeCounter(element) ==
    /\ cPhase = "ready"
    /\ IF element \in DOMAIN counters
       THEN LET cs == stop(CounterState, counters[element]) IN
            /\ objs' = cs.objs
            /\ rafs' = cs.rafs
            /\ cObserved' = cObserved \ {element}
            /\ counters' = [e \in DOMAIN counters \ {element} |-> counters[e]]
       ELSE UNCHANGED <<objs, rafs, cObserved, counters>>
    /\ UNCHANGED <<revealVars, widgetVars, cOptions, cHasIO, cDocument, cPhase, cTimers, text,
                   original, complete, cDestroyed>>

\* this.counters.forEach(counter => counter.reset())
RECURSIVE ResetEach(_, _)
ResetEach(cs, todo) ==
    IF todo = {}
    THEN cs
    ELSE LET el == CHOOSE e \in todo : TRUE
         IN ResetEach(counterReset(cs, counters[el]), todo \ {el})

\* this.counters.forEach(counter => counter.stop())
RECURSIVE StopEach(_, _)
StopEach(cs, todo) ==
    IF todo = {}
    THEN cs
    ELSE LET el == CHOOSE e \in todo : TRUE
         IN StopEach(stop(cs, counters[el]), todo \ {el})

\* resetAll()
resetAll ==
    /\ cPhase = "ready"
    /\ LET cs == ResetEach(CounterState, DOMAIN counters) IN
       /\ objs' = cs.objs
       /\ rafs' = cs.rafs
       /\ text' = cs.text
    /\ UNCHANGED <<revealVars, widgetVars, cOptions, cHasIO, cDocument, cPhase, counters,
                   cObserved, cTimers, original, complete, cDestroyed>>

\* CounterObserver.destroy()
cDestroy ==
    /\ cPhase = "ready"
    /\ LET cs == StopEach(CounterState, DOMAIN counters) IN
       /\ objs' = cs.objs
       /\ rafs' = cs.rafs
    /\ cObserved' = {}
    /\ counters' = << >>
    /\ cDestroyed' = TRUE
    /\ UNCHANGED <<revealVars, widgetVars, cOptions, cHasIO, cDocument, cPhase, cTimers, text,
                   original, complete>>

\* counter.start() called on a registered counter.
counterStart(element) ==
    /\ cPhase = "ready"
    /\ element \in DOMAIN counters
    /\ Len(rafs) < MaxRafs
    /\ LET cs == start(CounterState, counters[element]) IN
       /\ objs' = cs.objs
       /\ rafs' = cs.rafs
    /\ UNCHANGED <<revealVars, widgetVars, cOptions, cHasIO, cDocument, cPhase, counters,
                   cObserved, cTimers, text, original, complete, cDestroyed>>

\* counter.stop() called on a registered counter.
counterStop(element) ==
    /\ cPhase = "ready"
    /\ element \in DOMAIN counters
    /\ LET cs == stop(CounterState, counters[element]) IN
       /\ objs' = cs.objs
       /\ rafs' = cs.rafs
    /\ UNCHANGED <<revealVars, widgetVars, cOptions, cHasIO, cDocument, cPhase, counters,
                   cObserved, cTimers, text, original, complete, cDestroyed>>

\* The counter elements of the page.
CounterPageElems == {cDocument[i].el : i \in DOMAIN cDocument}

CNext ==
    \/ CConstruct
    \/ \E element \in CounterPageElems : addCounter(element)
    \/ \E element \in CounterPageElems : removeCounter(element)
    \/ resetAll
    \/ cDestroy
    \/ \E entries \in CBatches : cHandleIntersection(entries)
    \/ StartTimerFires
    \/ \E dt \in FrameSteps : AnimationFrame(dt)

SpecCounter == CInit /\ [][CNext]_vars

\* ------------------------------------------------------------------------
\* CounterObserver: properties
\* ------------------------------------------------------------------------
\* C4: once CounterObserver.destroy() has returned (and until a counter is
\* added again), no counter's displayed text changes and no 'counterComplete'
\* event is dispatched.
C4_DestroyStopsCounters ==
    [][(cDestroyed /\ counters = << >> /\ counters' = << >>)
          => (text' = text /\ complete' = complete)]_vars

\* ------------------------------------------------------------------------
\* CounterAnimation: one counter under start(), stop() and animation frames
\* ------------------------------------------------------------------------
\* Counter texts: a number, with thousands separators or a decimal point,
\* and what it shows when the count is complete.
NumberTexts ==
    { [text |-> <<"7">>, shown |-> <<"7">>],
      [text |-> <<"1", ",", "2", "3", "4">>, shown |-> <<"1", ",", "2", "3", "4">>],
      [text |-> <<"2", ".", "5">>, shown |-> <<"2">>] }

\* A number, an optional alphabetic suffix and an optional '+', with the text
\* to be shown on completion: the grouped integer part, the suffix and the
\* plus marker.
WellFormedTexts ==
    { [text |-> n.text \o sfx \o plus,
       shown |-> n.shown \o sfx \o (IF plus = << >> THEN << >> ELSE <<PlusSpan>>)] :
        n \in NumberTexts, sfx \in {<< >>, <<"K">>}, plus \in {<< >>, <<"+">>} }

\* Counter texts without any numeric character.
MalformedTexts == { <<"-">>, <<"N", "/", "A">> }

\* Pages with one counter showing one of these texts.
AnimationDocuments ==
    { <<[el |-> "c1", text |-> t]>> :
        t \in {w.text : w \in WellFormedTexts} \cup MalformedTexts }

AnimationInit ==
    /\ CounterInit(AnimationDocuments)
    /\ cHasIO

AnimationNext ==
    \/ CConstruct
    \/ \E element \in CounterPageElems : counterStart(element)
    \/ \E element \in CounterPageElems : counterStop(element)
    \/ \E dt \in FrameSteps : AnimationFrame(dt)

SpecAnimation == AnimationInit /\ [][AnimationNext]_vars

\* C17: under start(), stop() and animation frames, without reset(), the
\* 'counterComplete' event is dispatched at most once on a counter element,
\* and a counter that has completed stays as it is.
C17_CompletesAtMostOnce ==
    /\ [](\A e \in CounterElems : complete[e] <= 1)
    /\ [][\A e \in DOMAIN counters :
            objs[counters[e]].hasAnimated
                => (objs'[counters[e]] = objs[counters[e]] /\ text'[e] = text[e])]_vars

\* ------------------------------------------------------------------------
\* CounterObserver: two counters on one page
\* ------------------------------------------------------------------------
PairDocuments ==
    { <<[el |-> "c1", text |-> <<"4", "2">>],
        [el |-> "c2", text |-> <<"1", ",", "5", "0", "0", "+">>]>> }

PairInit ==
    /\ CounterInit(PairDocuments)
    /\ cHasIO

PairNext ==
    \/ CConstruct
    \/ \E element \in CounterPageElems : removeCounter(element)
    \/ resetAll
    \/ cDestroy
    \/ \E entries \in CBatches : cHandleIntersection(entries)
    \/ StartTimerFires
    \/ \E dt \in FrameSteps : AnimationFrame(dt)

SpecPair == PairInit /\ [][PairNext]_vars

\* Pending timers run and animation frames keep coming.
FairSpecPair ==
    /\ SpecPair
    /\ WF_vars(StartTimerFires)
    /\ WF_vars(\E dt \in FrameSteps : AnimationFrame(dt))

\* The counter on element e has been reported visible and its count is under
\* way: its start is pending or its animation has a frame requested.
Running(e) ==
    /\ e \in DOMAIN counters
    /\ ~objs[counters[e]].hasAnimated
    /\ \/ \E k \in DOMAIN cTimers : cTimers[k] = counters[e]
       \/ objs[counters[e]].animationFrame = "set"

\* The terminal state: hasAnimated, and the text is the formatted target.
Terminal(e) ==
    /\ e \in DOMAIN counters
    /\ objs[counters[e]].hasAnimated
    /\ text[e] = updateDisplay(objs[counters[e]], objs[counters[e]].targetValue)

\* The counter was removed (or the engine destroyed), or its count was
\* stopped or reset with no start pending.
Interrupted(e) ==
    \/ e \notin DOMAIN counters
    \/ /\ ~objs[counters[e]].hasAnimated
       /\ objs[counters[e]].animationFrame = "null"
       /\ \A k \in DOMAIN cTimers : cTimers[k] # counters[e]

\* C18: with timers and animation frames scheduled fairly, a counter that was
\* reported visible reaches its terminal state (hasAnimated, text equal to the
\* formatted target) unless it is stopped, reset, removed or destroyed; and
\* an animation frame ends a count only in the terminal state.
C18_VisibleCounterCompletes ==
    /\ \A e \in CounterElems : [](Running(e) => <>(Terminal(e) \/ Interrupted(e)))
    /\ [][\A e \in CounterElems :
            (Running(e) /\ ~Running(e)' /\ \E dt \in FrameSteps : AnimationFrame(dt))
                => Terminal(e)']_vars

\* One counter has reached its terminal state while the other one, reported
\* visible too, is still counting.
C18_Witness ==
    \E e \in CounterElems, f \in CounterElems :
        /\ Terminal(e)
        /\ complete[e] >= 1
        /\ Running(f)
        /\ objs[counters[f]].startTime = "set"

\* The count of the counter on element e is complete.
Completed(e) ==
    /\ e \in DOMAIN counters
    /\ objs[counters[e]].hasAnimated
    /\ complete[e] >= 1

\* C19: a counter whose original text is a number, an optional alphabetic
\* suffix and an optional '+' shows on completion the integer part of the
\* number with thousands grouping, then the suffix, then the plus marker if
\* the original text had a '+'.
C19_FinalTextKeepsSuffixAndPlus ==
    \A e \in CounterElems :
        (Completed(e) /\ \E w \in WellFormedTexts : w.text = original[e])
            => text[e] = (CHOOSE w \in WellFormedTexts : w.text = original[e]).shown

\* C20: a counter whose original text has no numeric character has the target
\* value 0 and shows exactly "0" on completion.
C20_MalformedShowsZero ==
    \A e \in CounterElems :
        (Completed(e) /\ original[e] \in MalformedTexts)
            => /\ objs[counters[e]].targetValue.n = 0
               /\ text[e] = <<"0">>

\* The text of element e as the page's author wrote it.
AuthoredText(e) ==
    cDocument[CHOOSE i \in DOMAIN cDocument : cDocument[i].el = e].text

\* C21: the counter registered for an element targets the value parsed from
\* the element's original text, whatever start, reset, removeCounter and
\* addCounter calls were made.
C21_TargetFromOriginalText ==
    \A e \in DOMAIN counters :
        objs[counters[e]].targetValue = parseValue(AuthoredText(e))

\* ------------------------------------------------------------------------
\* CounterAnimation: every easing of the table
\* ------------------------------------------------------------------------
EasingNames ==
    {"linear", "easeInQuad", "easeOutQuad", "easeInOutQuad", "easeInCubic",
     "easeOutCubic", "easeInOutCubic"}

\* The options: every easing of the table, a name that is no property of the
\* table, and a name the table inherits.
EasingOptions ==
    { [duration |-> 4, easingFunction |-> name] :
        name \in EasingNames \cup {"bounce", "constructor"} }

EasingDocuments == { <<[el |-> "c1", text |-> <<"4", "2">>]>> }

EasingInit ==
    /\ CounterPage(EasingOptions, EasingDocuments)
    /\ cHasIO

SpecEasing == EasingInit /\ [][AnimationNext]_vars

\* a / b <= c / d for fractions with positive denominators.
FracLeq(x, y) == x.n * y.d <= y.n * x.d

\* C22: in a run of a counter with an easing of the table, currentValue is 0
\* on the first frame, does not decrease from one frame to the next, and is
\* never above targetValue.
C22_ValueMonotoneAndBounded ==
    /\ [](\A o \in DOMAIN objs :
            objs[o].easingFunction \in EasingNames
                => /\ FracLeq([n |-> 0, d |-> 1], objs[o].currentValue)
                   /\ FracLeq(objs[o].currentValue, objs[o].targetValue))
    /\ [][\A o \in DOMAIN objs :
            (objs[o].easingFunction \in EasingNames
                 /\ \E dt \in FrameSteps : AnimationFrame(dt))
            => IF objs[o].startTime = "null"
               THEN objs'[o].startTime = "set" => objs'[o].currentValue.n = 0
               ELSE FracLeq(objs[o].currentValue, objs'[o].currentValue)]_vars

\* A counter with an easing of the table is between 0 and its target, in the
\* middle of its run.
C22_Witness ==
    \E o \in DOMAIN objs :
        /\ objs[o].easingFunction \in EasingNames
        /\ objs[o].startTime = "set"
        /\ ~objs[o].hasAnimated
        /\ objs[o].currentValue.n > 0
        /\ ~FracLeq(objs[o].targetValue, objs[o].currentValue)

\* The integer the claim expects on a frame: the floor of target * f(e / D),
\* f being the table's easing of that name, easeOutQuad for any other name.
ExpectedInteger(target, name, elapsed, D) ==
    LET f == Ease(IF name \in EasingNames THEN name ELSE "easeOutQuad",
                  elapsed, D)
    IN (target.n * f.n) \div (target.d * f.d)

\* C23: after every frame of a running counter the displayed integer is
\* floor(targetValue * ease(min(elapsed / duration, 1))), an easing name that
\* is not in the table counting as easeOutQuad; target 42 under easeOutQuad
\* shows 31 half-way.
C23_DisplayedIntegerIsFloor ==
    \A e \in DOMAIN counters :
        LET c == objs[counters[e]]
        IN c.startTime = "set"
              => /\ text[e] = Grouped[ExpectedInteger(c.targetValue,
                                   c.easingFunction, c.elapsed, c.duration)]
                 /\ (c.easingFunction \notin EasingNames \ {"easeOutQuad"}
                        /\ 2 * c.elapsed = c.duration)
                       => text[e] = <<"3", "1">>

\* C24: every easing of the table maps 0 to 0 and 1 to 1, so a run of the
\* engine's easing starts at 0 and ends at the target.
C24_EasingEndpoints ==
    /\ \A name \in EasingNames :
          /\ Ease(name, 0, cOptions.duration).n = 0
          /\ Ease(name, cOptions.duration, cOptions.duration).n
                = Ease(name, cOptions.duration, cOptions.duration).d
    /\ \A o \in DOMAIN objs :
          (objs[o].easingFunction \in EasingNames /\ objs[o].startTime = "set")
              => /\ objs[o].elapsed = 0 => objs[o].currentValue.n = 0
                 /\ objs[o].elapsed = objs[o].duration
                       => /\ FracLeq(objs[o].currentValue, objs[o].targetValue)
                          /\ FracLeq(objs[o].targetValue, objs[o].currentValue)

\* A counter with an easing of the table has run to the end and holds its
\* target.
C24_Witness ==
    \E o \in DOMAIN objs :
        /\ objs[o].easingFunction \in EasingNames
        /\ objs[o].hasAnimated
        /\ objs[o].elapsed = objs[o].duration
        /\ objs[o].currentValue.n = objs[o].targetValue.n * objs[o].currentValue.d

\* ------------------------------------------------------------------------
\* hero-tabs.js: the rotating hero tabs
\* ------------------------------------------------------------------------
TotalTabs == 3     \* TAB_NAMES.length, tabButtons.length
HeroTicks == 2     \* autoRotateInterval, in steps of the model's clock
HeroSteps == {1, 2}
Tabs == 0..(TotalTabs - 1)

\* The indexes passed to goTo: every tab, and one below and one above.
HeroIndexes == (0 - 1)..TotalTabs

HeroKeys == {"ArrowLeft", "ArrowRight", " ", "Tab"}

\* The closure after the script body ran, before init(): the variables of
\* lines 60-66 and the markup of the page, whose first tab is the active one.
HeroLoaded(pauseButton) ==
    [phase |-> "loading",
     pauseButton |-> pauseButton,
     listening |-> FALSE,
     currentTab |-> 0,
     isTransitioning |-> FALSE,
     isPaused |-> FALSE,
     startTime |-> "null",
     progressValue |-> 0,
     elapsed |-> 0,
     frames |-> << >>,
     queue |-> << >>,
     timers |-> << >>,
     active |-> 0,
     image |-> 0,
     title |-> 0,
     live |-> 0 - 1,
     bar |-> [i \in Tabs |-> 0],
     scaled |-> {},
     pausedClass |-> FALSE,
     raised |-> FALSE]

\* requestAnimationFrame(updateProgress), assigned to progressTimer: the
\* pending callbacks in order, the one progressTimer names flagged TRUE.
HeroRequestFrame(h) ==
    [h EXCEPT !.frames = Append([i \in DOMAIN @ |-> FALSE], TRUE)]

\* stopProgress(): cancelAnimationFrame(progressTimer).
HeroStopProgress(h) ==
    [h EXCEPT !.frames = SelectSeq(@, LAMBDA tracked : ~tracked),
              !.queue = SelectSeq(@, LAMBDA tracked : ~tracked)]

\* startProgress().
HeroStartProgress(h) ==
    HeroRequestFrame([HeroStopProgress(h) EXCEPT !.startTime = "null",
                                                 !.progressValue = 0])

\* resetProgress().
HeroResetProgress(h) ==
    [h EXCEPT !.progressValue = 0, !.startTime = "null",
              !.bar = [i \in Tabs |-> 0]]

\* switchTab(index).  tabButtons[index] is undefined for an index outside the
\* tabs: newTab.style (157) throws after isTransitioning was set (153).
switchTab(h, index) ==
    IF index = h.currentTab \/ h.isTransitioning THEN h
    ELSE IF index \notin Tabs
    THEN [h EXCEPT !.isTransitioning = TRUE, !.raised = TRUE]
    ELSE LET shown == [h EXCEPT !.isTransitioning = TRUE,
                                !.scaled = @ \cup {index},
                                !.currentTab = index,
                                !.active = index,
                                !.image = index,
                                !.live = index]
             cleared == HeroResetProgress(shown)
             restarted == IF ~cleared.isPaused THEN HeroStartProgress(cleared)
                                               ELSE cleared
         IN [restarted EXCEPT !.timers = @ \o <<[kind |-> "scale", tab |-> index],
                                                [kind |-> "title", tab |-> index],
                                                [kind |-> "release", tab |-> index]>>]

\* nextTab() and prevTab().
nextTab(h) ==
    IF h.isTransitioning THEN h
    ELSE switchTab(h, (h.currentTab + 1) % TotalTabs)

prevTab(h) ==
    IF h.isTransitioning THEN h
    ELSE switchTab(h, (h.currentTab - 1 + TotalTabs) % TotalTabs)

\* togglePause(): without a #heroPause button, pauseButton.classList throws
\* after isPaused was flipped.
togglePause(h) ==
    LET flipped == [h EXCEPT !.isPaused = ~@]
    IN IF ~h.pauseButton THEN [flipped EXCEPT !.raised = TRUE]
       ELSE IF flipped.isPaused
       THEN HeroStopProgress([flipped EXCEPT !.pausedClass = TRUE])
       ELSE HeroStartProgress([flipped EXCEPT !.pausedClass = FALSE])

\* updateProgress(timestamp); h.elapsed is timestamp - startTime.
updateProgress(h) ==
    LET started == IF h.startTime = "null"
                   THEN [h EXCEPT !.startTime = "set", !.elapsed = 0]
                   ELSE h
        drawn == [started EXCEPT !.progressValue = started.elapsed,
                                 !.bar[started.currentTab] =
                                     Min(started.elapsed, HeroTicks)]
        advanced == IF drawn.progressValue >= HeroTicks
                    THEN LET r == [drawn EXCEPT !.progressValue = 0,
                                                !.startTime = "null"]
                         IN IF ~r.isPaused /\ ~r.isTransitioning
                            THEN nextTab(r) ELSE r
                    ELSE drawn
    IN IF ~advanced.isPaused THEN HeroRequestFrame(advanced) ELSE advanced

\* One animation frame: the callbacks that were pending run in order, a
\* callback cancelled by an earlier one of the same frame does not run.
RECURSIVE HeroRunFrame(_)
HeroRunFrame(h) ==
    IF h.queue = << >> THEN h
    ELSE HeroRunFrame(updateProgress([h EXCEPT !.queue = Tail(@)]))

\* init(): switchTab(0), attachEventListeners(), startProgress().
HeroInitPage ==
    /\ hero.phase = "loading"
    /\ hero' = HeroStartProgress([switchTab(hero, 0) EXCEPT !.listening = TRUE,
                                                           !.phase = "ready"])
    /\ UNCHANGED <<revealVars, counterVars, carousel, touch, nav, rotator, services>>

\* A call into the closure that leaves it in the state after.
HeroCall(after) ==
    /\ hero.phase = "ready"
    /\ hero' = after
    /\ UNCHANGED <<revealVars, counterVars, carousel, touch, nav, rotator, services>>

\* handleTabClick on the button of TAB_NAMES[index].
HeroClick(index) ==
    /\ hero.listening
    /\ HeroCall(IF hero.isTransitioning \/ index = hero.currentTab
                THEN hero
                ELSE switchTab(hero, index))

\* handleKeyboard.
HeroKey(key, inViewport) ==
    /\ hero.listening
    /\ HeroCall(IF hero.isTransitioning \/ ~inViewport THEN hero
                ELSE CASE key = "ArrowLeft" -> prevTab(hero)
                       [] key = "ArrowRight" -> nextTab(hero)
                       [] key = " " -> togglePause(hero)
                       [] OTHER -> hero)

\* A click on the pause button.
HeroPauseClick ==
    /\ hero.listening
    /\ hero.pauseButton
    /\ HeroCall(togglePause(hero))

\* window.heroTabs.
heroTabs_next == HeroCall(nextTab(hero))

heroTabs_prev == HeroCall(prevTab(hero))

heroTabs_goTo(index) == HeroCall(switchTab(hero, index))

heroTabs_pause ==
    HeroCall(IF ~hero.isPaused THEN togglePause(hero)
                               ELSE hero)

heroTabs_resume ==
    HeroCall(IF hero.isPaused THEN togglePause(hero)
                              ELSE hero)

\* destroy(): stopProgress() and removeEventListeners().
heroTabs_destroy ==
    HeroCall([HeroStopProgress(hero) EXCEPT !.listening = FALSE])

\* An animation frame, dt after the previous one.
HeroFrame(dt) ==
    /\ hero.phase = "ready"
    /\ hero.frames # << >>
    /\ \E h \in {HeroRunFrame([hero EXCEPT
                     !.queue = hero.frames,
                     !.frames = << >>,
                     !.elapsed = IF hero.startTime = "set"
                                 THEN Min(hero.progressValue + dt, HeroTicks)
                                 ELSE 0])} :
          hero' = [h EXCEPT !.elapsed = 0]
    /\ UNCHANGED <<revealVars, counterVars, carousel, touch, nav, rotator, services>>

\* The timeout that is due first: the scale reset (200 ms), the title
\* (250 ms) or the release of the guard (imageTransitionDuration).
HeroTimerFires ==
    /\ hero.phase = "ready"
    /\ hero.timers # << >>
    /\ LET t == Head(hero.timers)
           h == [hero EXCEPT !.timers = Tail(@)]
       IN hero' = CASE t.kind = "scale" -> [h EXCEPT !.scaled = @ \ {t.tab}]
                    [] t.kind = "title" -> [h EXCEPT !.title = t.tab]
                    [] OTHER -> [h EXCEPT !.isTransitioning = FALSE]
    /\ UNCHANGED <<revealVars, counterVars, carousel, touch, nav, rotator, services>>

HeroInit ==
    /\ RevealIdle
    /\ CounterIdle
    /\ hero \in {HeroLoaded(pauseButton) : pauseButton \in BOOLEAN}
    /\ carousel = Absent
    /\ touch = Absent
    /\ nav = Absent
    /\ rotator = Absent
    /\ services = Absent

HeroNext ==
    \/ HeroInitPage
    \/ \E index \in Tabs : HeroClick(index)
    \/ \E key \in HeroKeys, inViewport \in BOOLEAN : HeroKey(key, inViewport)
    \/ HeroPauseClick
    \/ heroTabs_next
    \/ heroTabs_prev
    \/ \E index \in HeroIndexes : heroTabs_goTo(index)
    \/ heroTabs_pause
    \/ heroTabs_resume
    \/ heroTabs_destroy
    \/ \E dt \in HeroSteps : HeroFrame(dt)
    \/ HeroTimerFires

SpecHero == HeroInit /\ [][HeroNext]_vars

\* Every timeout that is due eventually runs.
FairSpecHero == SpecHero /\ WF_vars(HeroTimerFires)

\* C25: whenever isTransitioning is set, it is reset to false again (by the
\* timeout of imageTransitionDuration), whatever next(), prev() and
\* goTo(index) calls are made.
C25_GuardAlwaysReleased ==
    (hero.phase = "ready" /\ hero.isTransitioning)
        ~> (hero.phase = "ready" /\ ~hero.isTransitioning)

\* ------------------------------------------------------------------------
\* carousel.js: the sliding hero carousel with its timer bar
\* ------------------------------------------------------------------------
CarouselTotal == 3     \* playableSlides.length
CarouselTicks == 2     \* duration (4500 ms), in steps of the model's clock
CarouselSteps == {1, 2}
MaxRestarts == 2       \* pending setTimeout(startProgress, 60) callbacks
Slides == 0..(CarouselTotal - 1)

\* The idx arguments passed to goTo, and the screenX of a touch.
CarouselIndexes == (0 - 1)..CarouselTotal
ScreenXs == {0, 60}
CarouselKeys == {"ArrowLeft", "ArrowRight", "Tab"}

\* updateTrack().
updateTrack(c) ==
    [c EXCEPT !.active = c.current,
              !.prevDisabled = (c.current = 0),
              !.nextDisabled = (c.current = CarouselTotal - 1)]

\* resetAllFills().
resetAllFills(c) == [c EXCEPT !.fill = [s \in Slides |-> 0]]

\* stopProgress().
stopProgress(c) == [c EXCEPT !.raf = FALSE, !.startTs = "null", !.elapsed = 0]

\* startProgress().
startProgress(c) ==
    [stopProgress(c) EXCEPT !.startTs = "null", !.paused = FALSE, !.raf = TRUE]

\* resetProgress(): the restart is scheduled 60 ms later.
resetProgress(c) ==
    [resetAllFills(stopProgress(c)) EXCEPT !.restarts = @ + 1]

\* goNext(), goPrev() and the goTo of window.heroCarousel.
goNext(c) ==
    resetProgress(updateTrack([c EXCEPT !.current = (@ + 1) % CarouselTotal]))

goPrev(c) ==
    resetProgress(updateTrack(
        [c EXCEPT !.current = (@ - 1 + CarouselTotal) % CarouselTotal]))

goTo(c, idx) ==
    resetProgress(updateTrack(
        [c EXCEPT !.current = Max(0, Min(CarouselTotal - 1, idx))]))

\* progressStep(ts), dt after the previous frame.
progressStep(c, dt) ==
    IF c.paused THEN [c EXCEPT !.raf = FALSE]
    ELSE LET elapsed == IF c.startTs = "null" THEN 0
                        ELSE Min(c.elapsed + dt, CarouselTicks)
             drawn == [c EXCEPT !.raf = FALSE, !.startTs = "set",
                                !.elapsed = elapsed,
                                !.fill[c.current] = elapsed]
         IN IF elapsed >= CarouselTicks THEN goNext(drawn)
            ELSE [drawn EXCEPT !.raf = TRUE]

\* The closure after the script ran (144-147) on a page whose first slide is
\* the active one, the pointer outside the track.
CarouselLoaded ==
    startProgress(resetAllFills(updateTrack(
        [phase |-> "ready",
         current |-> 0,
         raf |-> FALSE,
         startTs |-> "null",
         elapsed |-> 0,
         paused |-> FALSE,
         restarts |-> 0,
         hover |-> FALSE,
         sx |-> 0,
         active |-> 0,
         prevDisabled |-> FALSE,
         nextDisabled |-> FALSE,
         fill |-> [s \in Slides |-> 0]])))

\* A handler of the closure that leaves it in the state after; the number of
\* pending restarts is bounded.
CarouselCall(after) ==
    /\ carousel.phase = "ready"
    /\ after.restarts <= MaxRestarts
    /\ carousel' = after
    /\ UNCHANGED <<revealVars, counterVars, hero, touch, nav, rotator, services>>

\* The click handlers of the two buttons; a disabled button gets no click.
CarouselPrevClick ==
    /\ carousel.phase = "ready" /\ ~carousel.prevDisabled
    /\ CarouselCall(goPrev(stopProgress(carousel)))

CarouselNextClick ==
    /\ carousel.phase = "ready" /\ ~carousel.nextDisabled
    /\ CarouselCall(goNext(stopProgress(carousel)))

\* The keydown handler.
CarouselKey(key) ==
    CarouselCall(CASE key = "ArrowLeft" -> goPrev(stopProgress(carousel))
                   [] key = "ArrowRight" -> goNext(stopProgress(carousel))
                   [] OTHER -> carousel)

\* The touchstart and touchend handlers of the track.
CarouselTouchStart(screenX) ==
    CarouselCall(stopProgress([carousel EXCEPT !.sx = screenX]))

CarouselTouchEnd(ex) ==
    LET diff == carousel.sx - ex
        swiped == IF diff > 40 THEN goNext(carousel)
                  ELSE IF 0 - diff > 40 THEN goPrev(carousel)
                  ELSE carousel
    IN CarouselCall(resetProgress(swiped))

\* The pointer enters and leaves the track.
CarouselMouseEnter ==
    /\ carousel.phase = "ready" /\ ~carousel.hover
    /\ CarouselCall(stopProgress([carousel EXCEPT !.paused = TRUE,
                                                  !.hover = TRUE]))

CarouselMouseLeave ==
    /\ carousel.phase = "ready" /\ carousel.hover
    /\ CarouselCall(resetProgress([carousel EXCEPT !.paused = FALSE,
                                                   !.hover = FALSE]))

\* window.heroCarousel.
heroCarousel_next == CarouselCall(goNext(carousel))

heroCarousel_prev == CarouselCall(goPrev(carousel))

heroCarousel_goTo(idx) == CarouselCall(goTo(carousel, idx))

\* A setTimeout(startProgress, 60) is due.
CarouselRestartFires ==
    /\ carousel.phase = "ready" /\ carousel.restarts > 0
    /\ CarouselCall(startProgress([carousel EXCEPT !.restarts = @ - 1]))

\* An animation frame, dt after the previous one.
CarouselFrame(dt) ==
    /\ carousel.phase = "ready" /\ carousel.raf
    /\ CarouselCall(progressStep(carousel, dt))

CarouselInit ==
    /\ RevealIdle
    /\ CounterIdle
    /\ hero = Absent
    /\ carousel = CarouselLoaded
    /\ touch = Absent
    /\ nav = Absent
    /\ rotator = Absent
    /\ services = Absent

CarouselNext ==
    \/ CarouselPrevClick
    \/ CarouselNextClick
    \/ \E key \in CarouselKeys : CarouselKey(key)
    \/ \E screenX \in ScreenXs : CarouselTouchStart(screenX)
    \/ \E ex \in ScreenXs : CarouselTouchEnd(ex)
    \/ CarouselMouseEnter
    \/ CarouselMouseLeave
    \/ heroCarousel_next
    \/ heroCarousel_prev
    \/ \E idx \in CarouselIndexes : heroCarousel_goTo(idx)
    \/ CarouselRestartFires
    \/ \E dt \in CarouselSteps : CarouselFrame(dt)

SpecCarousel == CarouselInit /\ [][CarouselNext]_vars

\* C26: while the pointer is over the track (after mouseenter, before the
\* next mouseleave) no progressStep is pending, so the timer bar does not run
\* and the carousel does not advance by itself.
C26_HoverPauses == (carousel.phase = "ready" /\ carousel.hover) => ~carousel.raf

\* ------------------------------------------------------------------------
\* navigation.js (2.0.0) and its enhanced version (3.0.0): the mobile menu,
\* the header and the active nav link
\* ------------------------------------------------------------------------
MaxFocusTimers == 2    \* pending setTimeout(focus, 100) callbacks of openMenu

NavVersions == {"2.0.0", "3.0.0"}

\* The .nav__link elements of the page by their href, and its section[id]
\* elements with offsetTop and offsetHeight.
NavLinks == {"#", "/", "index.html", "#about", "#services"}
HomeLinks == {"#", "/", "index.html"}
NavSections ==
    <<[id |-> "about", offsetTop |-> 200, offsetHeight |-> 300],
      [id |-> "services", offsetTop |-> 500, offsetHeight |-> 300]>>

\* window.pageYOffset: an overscroll above the top, the top, and offsets
\* before, inside and after the sections.
ScrollOffsets == {0 - 20, 0, 30, 100, 400, 700}
ScrollThreshold == 50
ActiveOffset == 150

NavKeys == {"Escape", "Tab", "Enter"}

\* '#' + sectionId.
Hash(id) == CASE id = "about" -> "#about" [] OTHER -> "#services"

\* openMenu(): a missing #menuToggle or #mainNav throws where it is first
\* dereferenced.
openMenu(n) ==
    IF ~n.hasToggle THEN [n EXCEPT !.raised = TRUE]
    ELSE LET t == [n EXCEPT !.toggleActive = TRUE,
                            !.ariaExpanded = IF n.version = "3.0.0" THEN "true" ELSE @]
         IN IF ~n.hasNav THEN [t EXCEPT !.raised = TRUE]
            ELSE [t EXCEPT !.navActive = TRUE,
                           !.ariaHidden = IF n.version = "3.0.0" THEN "false" ELSE @,
                           !.overlayActive = TRUE,
                           !.overflow = "hidden",
                           !.focusTimers = IF n.version = "3.0.0" THEN @ + 1 ELSE @]

\* closeMenu().
closeMenu(n) ==
    IF ~n.hasToggle THEN [n EXCEPT !.raised = TRUE]
    ELSE LET t == [n EXCEPT !.toggleActive = FALSE,
                            !.ariaExpanded = IF n.version = "3.0.0" THEN "false" ELSE @]
         IN IF ~n.hasNav THEN [t EXCEPT !.raised = TRUE]
            ELSE [t EXCEPT !.navActive = FALSE,
                           !.ariaHidden = IF n.version = "3.0.0" THEN "true" ELSE @,
                           !.overlayActive = FALSE,
                           !.overflow = ""]

\* toggleMenu().
toggleMenu(n) ==
    IF ~n.hasToggle THEN [n EXCEPT !.raised = TRUE]
    ELSE IF n.toggleActive THEN closeMenu(n) ELSE openMenu(n)

\* handleHeaderScroll().
handleHeaderScroll(n) ==
    [n EXCEPT !.headerScrolled = (n.scrollY > ScrollThreshold)]

\* The forEach over the sections in updateActiveNavLink.
RECURSIVE MarkSections(_, _, _)
MarkSections(active, todo, scrollPosition) ==
    IF todo = << >> THEN active
    ELSE LET section == Head(todo)
             inside == /\ scrollPosition >= section.offsetTop
                       /\ scrollPosition < section.offsetTop + section.offsetHeight
         IN MarkSections(IF inside
                         THEN [l \in NavLinks |-> l = Hash(section.id)]
                         ELSE active,
                         Tail(todo), scrollPosition)

\* updateActiveNavLink(); aria-current follows the class in 3.0.0.
updateActiveNavLink(n) ==
    LET scrollPosition == n.scrollY + ActiveOffset
        bySection == MarkSections(n.linkActive, NavSections, scrollPosition)
    IN [n EXCEPT !.linkActive =
           IF scrollPosition < ActiveOffset
           THEN [l \in NavLinks |-> bySection[l] \/ l \in HomeLinks]
           ELSE bySection]

\* The page after the script ran: the overlay exists, the header and the
\* active link were set for the initial scroll position.
NavLoaded(version, hasToggle, hasNav) ==
    updateActiveNavLink(handleHeaderScroll(
        [phase |-> "ready",
         version |-> version,
         hasToggle |-> hasToggle,
         hasNav |-> hasNav,
         toggleActive |-> FALSE,
         navActive |-> FALSE,
         overlayActive |-> FALSE,
         overflow |-> "",
         ariaExpanded |-> "unset",
         ariaHidden |-> "unset",
         focusTimers |-> 0,
         focus |-> "body",
         scrollY |-> 0,
         headerScrolled |-> FALSE,
         linkActive |-> [l \in NavLinks |-> FALSE],
         raised |-> FALSE]))

\* A handler of the closure that leaves it in the state after.
NavCall(after) ==
    /\ nav.phase = "ready"
    /\ after.focusTimers <= MaxFocusTimers
    /\ nav' = after
    /\ UNCHANGED <<revealVars, counterVars, hero, carousel, touch, rotator, services>>

\* The listeners of lines 44-69 exist when both elements do.
NavListening == nav.phase = "ready" /\ nav.hasToggle /\ nav.hasNav

NavToggleClick == NavListening /\ NavCall(toggleMenu(nav))

NavOverlayClick == NavListening /\ NavCall(closeMenu(nav))

\* A click on a nav link: the menu listener, then the smooth-scroll listener
\* of the links whose href is '#' + the id of an element.
NavLinkClick(href) ==
    LET closed == IF nav.hasToggle /\ nav.hasNav THEN closeMenu(nav) ELSE nav
    IN NavCall(IF href \in {"#about", "#services"}
               THEN LET again == closeMenu(closed)
                    IN IF nav.version = "3.0.0" /\ ~again.raised
                       THEN [again EXCEPT !.focus = "target"] ELSE again
               ELSE closed)

\* The keydown listeners: Escape closes the menu, Tab is trapped in 3.0.0.
NavKey(key, shiftKey) ==
    /\ NavListening
    /\ NavCall(CASE key = "Escape" /\ nav.navActive ->
                      IF nav.version = "3.0.0"
                      THEN [closeMenu(nav) EXCEPT !.focus = "toggle"]
                      ELSE closeMenu(nav)
                 [] key = "Tab" /\ nav.navActive /\ nav.version = "3.0.0" ->
                      IF shiftKey /\ nav.focus = "first" THEN [nav EXCEPT !.focus = "last"]
                      ELSE IF ~shiftKey /\ nav.focus = "last" THEN [nav EXCEPT !.focus = "first"]
                      ELSE nav
                 [] OTHER -> nav)

\* The focus of the first link, 100 ms after openMenu (3.0.0).
NavFocusTimerFires ==
    /\ nav.phase = "ready" /\ nav.focusTimers > 0
    /\ NavCall([nav EXCEPT !.focusTimers = @ - 1, !.focus = "first"])

\* A scroll event at offset y: both scroll listeners.
NavScroll(y) ==
    NavCall(updateActiveNavLink(handleHeaderScroll([nav EXCEPT !.scrollY = y])))

\* window.navigation.
navigation_openMenu == NavCall(openMenu(nav))

navigation_closeMenu == NavCall(closeMenu(nav))

navigation_toggleMenu == NavCall(toggleMenu(nav))

NavInit ==
    /\ RevealIdle
    /\ CounterIdle
    /\ hero = Absent
    /\ carousel = Absent
    /\ touch = Absent
    /\ rotator = Absent
    /\ services = Absent
    /\ nav \in {NavLoaded(version, hasToggle, hasNav) :
                   version \in NavVersions, hasToggle \in BOOLEAN,
                   hasNav \in BOOLEAN}

NavNext ==
    \/ NavToggleClick
    \/ NavOverlayClick
    \/ \E href \in NavLinks : NavLinkClick(href)
    \/ \E key \in NavKeys, shiftKey \in BOOLEAN : NavKey(key, shiftKey)
    \/ NavFocusTimerFires
    \/ \E y \in ScrollOffsets : NavScroll(y)
    \/ navigation_openMenu
    \/ navigation_closeMenu
    \/ navigation_toggleMenu

SpecNav == NavInit /\ [][NavNext]_vars

\* C29: the toggle button, the nav panel and the overlay carry 'active' all
\* together or not at all, and body.style.overflow is 'hidden' exactly then.
C29_MenuCoherent ==
    nav.phase = "ready"
        => /\ nav.toggleActive = nav.navActive
           /\ nav.navActive = nav.overlayActive
           /\ (nav.overflow = "hidden") = nav.overlayActive

\* C30: at scroll offset 0 the links whose href is '#', '/' or 'index.html'
\* carry nav__link--active.
C30_TopMarksHomeLinks ==
    (nav.phase = "ready" /\ nav.scrollY = 0)
        => \A l \in HomeLinks : nav.linkActive[l]

\* ------------------------------------------------------------------------
\* touch-gestures.js: one TouchGesture instance
\* ------------------------------------------------------------------------
\* Time is counted in steps of 100 ms; clientX is in px.  Finger f touches
\* down at FingerBase[f] and moves by one of the offsets.
MaxPressTimers == 2    \* pending long-press timeouts
MaxTapTimers == 2      \* pending single-tap timeouts
AgeCap == 3            \* the ages saturate at the largest timeout compared

Fingers == {1, 2}
FingerBase == [f \in Fingers |-> (f - 1) * 100]
MoveThreshold == 10    \* the 10 px of handleTouchMove and handleTouchEnd

\* CONFIG, the timeouts in steps of 100 ms.
TouchConfig ==
    [swipeThreshold |-> 50, swipeTimeout |-> 3, tapTimeout |-> 2,
     doubleTapTimeout |-> 3, longPressTimeout |-> 5, pinchThreshold |-> 10]

Abs(x) == IF x < 0 THEN 0 - x ELSE x

\* new TouchGesture(element, options): the fields of the constructor.  The
\* fields below 'gestures' record what the last handler did and which taps
\* belong together by their times: they are not fields of the instance.
TouchGesture(opts) ==
    [phase |-> "ready",
     options |-> opts,
     listening |-> TRUE,
     held |-> << >>,
     pos |-> FingerBase,
     touchStartX |-> 0,
     touchEndX |-> 0,
     startAge |-> AgeCap,
     lastTapAge |-> AgeCap,
     tapCount |-> 0,
     isLongPress |-> FALSE,
     isPinching |-> FALSE,
     initialDistance |-> 0,
     pressTimers |-> << >>,
     tapTimers |-> << >>,
     gestures |-> << >>,
     firedLive |-> FALSE,
     tapped |-> FALSE,
     role |-> "none",
     sinceTap |-> AgeCap,
     tapSeen |-> FALSE,
     pairTapSeen |-> FALSE]

\* What every handler starts from: nothing dispatched yet.
Quiet(t) == [t EXCEPT !.gestures = << >>, !.firedLive = FALSE, !.tapped = FALSE]

\* dispatchGesture(type, detail).
dispatchGesture(t, type) == [t EXCEPT !.gestures = Append(@, type)]

\* clearTimeout(this.longPressTimer): the timeout longPressTimer names is
\* the one flagged tracked, if it is still pending.
ClearLongPress(t) ==
    [t EXCEPT !.pressTimers = SelectSeq(@, LAMBDA timer : ~timer.tracked)]

\* The touch a pending long-press timeout was started for is over: it
\* ended, was cancelled or moved more than 10 px.
Over(t, f) ==
    [t EXCEPT !.pressTimers =
        [i \in DOMAIN @ |-> IF @[i].finger = f THEN [@[i] EXCEPT !.live = FALSE]
                                               ELSE @[i]]]

\* getDistance(touch1, touch2).
getDistance(t) == Abs(t.pos[t.held[2]] - t.pos[t.held[1]])

\* handlePinchStart, handlePinchMove, handlePinchEnd.
handlePinchStart(t) ==
    [t EXCEPT !.initialDistance = getDistance(t), !.isPinching = TRUE]

handlePinchMove(t) ==
    IF ~t.isPinching THEN t
    ELSE IF Abs(getDistance(t) - t.initialDistance) > t.options.pinchThreshold
    THEN dispatchGesture(t, "pinch")
    ELSE t

handlePinchEnd(t) == [t EXCEPT !.isPinching = FALSE, !.initialDistance = 0]

\* handleTouchStart(e) for the touchstart of finger f.
handleTouchStart(t, f) ==
    LET down == [t EXCEPT !.held = Append(@, f), !.pos[f] = FingerBase[f]]
        x == down.pos[Head(down.held)]
        started == [down EXCEPT
            !.touchStartX = x, !.touchEndX = x, !.startAge = 0,
            !.isLongPress = FALSE,
            !.pressTimers = Append([i \in DOMAIN @ |-> [@[i] EXCEPT !.tracked = FALSE]],
                                   [rem |-> t.options.longPressTimeout,
                                    tracked |-> TRUE, finger |-> f, live |-> TRUE])]
    IN IF Len(started.held) = 2 THEN handlePinchStart(started) ELSE started

\* handleTouchMove(e) for a move of finger f to offset d from where it
\* touched down.
handleTouchMove(t, f, d) ==
    LET at == [t EXCEPT !.pos[f] = FingerBase[f] + d]
        gone == IF Abs(d) > MoveThreshold THEN Over(at, f) ELSE at
        moved == [gone EXCEPT !.touchEndX = gone.pos[Head(gone.held)]]
        deltaX == Abs(moved.touchEndX - moved.touchStartX)
        cleared == IF deltaX > MoveThreshold
                   THEN [ClearLongPress(moved) EXCEPT !.isLongPress = FALSE]
                   ELSE moved
    IN IF Len(cleared.held) = 2 THEN handlePinchMove(cleared) ELSE cleared

\* handleSwipe: the deltas are horizontal.
handleSwipe(t, deltaX) ==
    dispatchGesture(dispatchGesture(t, "swipe"),
                    IF deltaX > 0 THEN "swiperight" ELSE "swipeleft")

\* handleTap().  The last three fields pair the taps by their times: a tap is
\* the second of a pair when the tap before it is less than doubleTapTimeout
\* old and was not itself the second of a pair.
handleTap(t) ==
    LET second == t.role = "first" /\ t.sinceTap < t.options.doubleTapTimeout
        seen == [t EXCEPT !.tapped = TRUE,
                          !.role = IF second THEN "second" ELSE "first",
                          !.sinceTap = 0,
                          !.pairTapSeen = second /\ t.tapSeen,
                          !.tapSeen = FALSE]
        counted == IF t.lastTapAge < t.options.doubleTapTimeout
                   THEN [seen EXCEPT !.tapCount = @ + 1]
                   ELSE [seen EXCEPT !.tapCount = 1]
    IN IF t.lastTapAge < t.options.doubleTapTimeout /\ counted.tapCount = 2
       THEN [dispatchGesture(counted, "doubletap") EXCEPT !.tapCount = 0]
       ELSE [counted EXCEPT !.lastTapAge = 0,
                            !.tapTimers = Append(@, t.options.doubleTapTimeout)]

\* handleTouchEnd(e) for the touchend of finger f.
handleTouchEnd(t, f) ==
    LET up == Over([t EXCEPT !.held = SelectSeq(@, LAMBDA g : g # f),
                             !.pos[f] = FingerBase[f]], f)
        cleared == ClearLongPress(up)
        deltaX == cleared.touchEndX - cleared.touchStartX
        deltaTime == cleared.startAge
    IN IF cleared.isLongPress THEN cleared
       ELSE IF /\ deltaTime < cleared.options.swipeTimeout
               /\ Abs(deltaX) > cleared.options.swipeThreshold
       THEN handleSwipe(cleared, deltaX)
       ELSE LET tapDone == IF /\ Abs(deltaX) < MoveThreshold
                              /\ deltaTime < cleared.options.tapTimeout
                           THEN handleTap(cleared) ELSE cleared
            IN IF tapDone.isPinching THEN handlePinchEnd(tapDone) ELSE tapDone

\* handleTouchCancel(e): every touch is cancelled.
RECURSIVE OverAll(_, _)
OverAll(t, fs) ==
    IF fs = {} THEN t
    ELSE LET f == CHOOSE g \in fs : TRUE IN OverAll(Over(t, f), fs \ {f})

handleTouchCancel(t) ==
    [ClearLongPress(OverAll([t EXCEPT !.held = << >>, !.pos = FingerBase], Fingers))
        EXCEPT !.isLongPress = FALSE, !.isPinching = FALSE]

\* A handler of the instance that leaves it in the state after; the numbers
\* of pending timeouts are bounded.
TouchCall(after) ==
    /\ touch.phase = "ready"
    /\ Len(after.pressTimers) <= MaxPressTimers
    /\ Len(after.tapTimers) <= MaxTapTimers
    /\ touch' = after
    /\ UNCHANGED <<revealVars, counterVars, hero, carousel, nav, rotator, services>>

TouchStart(f) ==
    /\ touch.phase = "ready" /\ touch.listening
    /\ \A i \in DOMAIN touch.held : touch.held[i] # f
    /\ TouchCall(handleTouchStart(Quiet(touch), f))

TouchMove(f, d) ==
    /\ touch.phase = "ready" /\ touch.listening
    /\ \E i \in DOMAIN touch.held : touch.held[i] = f
    /\ touch.pos[f] # FingerBase[f] + d
    /\ TouchCall(handleTouchMove(Quiet(touch), f, d))

TouchEnd(f) ==
    /\ touch.phase = "ready" /\ touch.listening
    /\ \E i \in DOMAIN touch.held : touch.held[i] = f
    /\ TouchCall(handleTouchEnd(Quiet(touch), f))

TouchCancel ==
    /\ touch.phase = "ready" /\ touch.listening
    /\ touch.held # << >>
    /\ TouchCall(handleTouchCancel(Quiet(touch)))

\* destroy(): the listeners are removed, the tracked timeout is cleared.
TouchDestroy ==
    /\ touch.phase = "ready" /\ touch.listening
    /\ TouchCall([ClearLongPress(Quiet(touch)) EXCEPT !.listening = FALSE])

\* The callback of a long-press timeout that is due (98-104).
LongPressFires(i) ==
    /\ touch.phase = "ready"
    /\ i \in DOMAIN touch.pressTimers
    /\ touch.pressTimers[i].rem = 0
    /\ LET timer == touch.pressTimers[i]
           rest == [Quiet(touch) EXCEPT !.pressTimers =
                       SubSeq(@, 1, i - 1) \o SubSeq(@, i + 1, Len(@))]
       IN TouchCall([dispatchGesture(rest, "longpress")
                        EXCEPT !.isLongPress = TRUE, !.firedLive = timer.live])

\* The callback of the single-tap timeout that is due (247-255).
TapTimerFires ==
    /\ touch.phase = "ready"
    /\ touch.tapTimers # << >>
    /\ Head(touch.tapTimers) = 0
    /\ LET rest == [Quiet(touch) EXCEPT !.tapTimers = Tail(@)]
       IN TouchCall([(IF rest.tapCount = 1
                      THEN [dispatchGesture(rest, "tap") EXCEPT !.tapSeen = TRUE]
                      ELSE rest) EXCEPT !.tapCount = 0])

\* 100 ms pass: no timeout is overdue.
TouchTick ==
    /\ touch.phase = "ready"
    /\ \A i \in DOMAIN touch.pressTimers : touch.pressTimers[i].rem > 0
    /\ \A i \in DOMAIN touch.tapTimers : touch.tapTimers[i] > 0
    /\ \/ touch.pressTimers # << >> \/ touch.tapTimers # << >>
       \/ touch.startAge < AgeCap \/ touch.lastTapAge < AgeCap
       \/ touch.sinceTap < AgeCap
    /\ TouchCall([Quiet(touch) EXCEPT
           !.pressTimers = [i \in DOMAIN @ |-> [@[i] EXCEPT !.rem = @ - 1]],
           !.tapTimers = [i \in DOMAIN @ |-> @[i] - 1],
           !.startAge = Min(@ + 1, AgeCap),
           !.lastTapAge = Min(@ + 1, AgeCap),
           !.sinceTap = Min(@ + 1, AgeCap)])

TouchInit(opts) ==
    /\ RevealIdle
    /\ CounterIdle
    /\ hero = Absent
    /\ carousel = Absent
    /\ touch = TouchGesture(opts)
    /\ nav = Absent
    /\ rotator = Absent
    /\ services = Absent

\* Two fingers that touch, move by 20 px and lift, on an instance with the
\* options of CONFIG.
LongPressOffsets == {0, 20}

LongPressInit == TouchInit(TouchConfig)

LongPressNext ==
    \/ \E f \in Fingers : TouchStart(f)
    \/ \E f \in Fingers, d \in LongPressOffsets : TouchMove(f, d)
    \/ \E f \in Fingers : TouchEnd(f)
    \/ TouchCancel
    \/ \E i \in 1..MaxPressTimers : LongPressFires(i)
    \/ TapTimerFires
    \/ TouchTick

SpecLongPress == LongPressInit /\ [][LongPressNext]_vars

\* C27: a 'longpress' is dispatched only for a touch that is still held and
\* has not moved more than 10 px since it started.
C27_LongPressOnlyWhileHeld ==
    (touch.phase = "ready" /\ touch.gestures = <<"longpress">>) => touch.firedLive

\* One finger that touches and lifts without moving, with the options of
\* CONFIG.
TapInit == TouchInit(TouchConfig)

TapNext ==
    \/ TouchStart(1)
    \/ TouchEnd(1)
    \/ TouchDestroy
    \/ LongPressFires(1)
    \/ TapTimerFires
    \/ TouchTick

SpecTap == TapInit /\ [][TapNext]_vars

\* C28: the second tap of a pair (a tap less than doubleTapTimeout after a
\* tap that was not itself the second of a pair) dispatches exactly one
\* 'doubletap' and no 'tap' was dispatched for the pair; a 'tap' is dispatched
\* only while the last tap is not the second of a pair.
C28_PairGivesOneDoubleTap ==
    touch.phase = "ready"
        => /\ (touch.tapped /\ touch.role = "second")
                => (touch.gestures = <<"doubletap">> /\ ~touch.pairTapSeen)
           /\ (touch.gestures = <<"tap">>) => touch.role = "first"

\* ------------------------------------------------------------------------
\* hero-tabs.js: pause and resume, the progress loop, destroy
\* ------------------------------------------------------------------------
\* An animation frame of the page runs the pending progress callbacks.
HeroFrameStep == \E dt \in HeroSteps : HeroFrame(dt)

\* The callback progressTimer names is pending.
HeroLoopPending(h) == \E i \in DOMAIN h.frames : h.frames[i]

\* C31: while the slideshow is paused no animation frame changes currentTab,
\* and the step that ends the pause (resume(), the pause control, the space
\* key) restarts the progress from 0: progressValue 0, no start time, and
\* the progress callback requested.
C31_PausedHoldsTab ==
    [][/\ (hero.phase = "ready" /\ hero.isPaused /\ HeroFrameStep)
              => hero'.currentTab = hero.currentTab
       /\ (hero.phase = "ready" /\ hero.isPaused /\ ~hero'.isPaused)
              => /\ hero'.progressValue = 0
                 /\ hero'.startTime = "null"
                 /\ HeroLoopPending(hero')]_vars

\* C32: at most one progress callback is pending at any time.
C32_OneProgressLoop ==
    hero.phase = "ready" => Len(hero.frames) <= 1

\* C33: destroy() leaves no progress callback scheduled, so no later frame
\* can advance the tab.
C33_DestroyStopsProgress ==
    [][(hero.phase = "ready" /\ heroTabs_destroy) => hero'.frames = << >>]_vars

\* ------------------------------------------------------------------------
\* The older hero tabs script: auto-rotation by setInterval, paused on hover
\* ------------------------------------------------------------------------
\* The closure after the script body ran, before init(): the variables of
\* lines 56-60 and the markup of the page, whose first tab is the active one.
\* hover records whether the pointer is inside #heroSection, auto whether the
\* last step was the interval callback changing the tab.
RotatorLoaded(pauseButton) ==
    [phase |-> "loading",
     pauseButton |-> pauseButton,
     listening |-> FALSE,
     currentTab |-> 0,
     autoRotateTimer |-> FALSE,
     isPaused |-> FALSE,
     isTransitioning |-> FALSE,
     timers |-> << >>,
     active |-> 0,
     image |-> 0,
     title |-> 0,
     pausedClass |-> FALSE,
     hover |-> FALSE,
     auto |-> FALSE,
     raised |-> FALSE]

\* switchTab(index) of the older script.  tabButtons[index] is undefined for
\* an index outside the tabs: activeButton.dataset (114) throws after
\* isTransitioning and currentTab were written and every button and pane
\* lost its active class.
RotatorSwitchTab(r, index) ==
    IF index = r.currentTab \/ r.isTransitioning THEN r
    ELSE IF index \notin Tabs
    THEN [r EXCEPT !.isTransitioning = TRUE, !.currentTab = index,
                   !.active = index, !.raised = TRUE]
    ELSE [r EXCEPT !.isTransitioning = TRUE,
                   !.currentTab = index,
                   !.active = index,
                   !.image = index,
                   !.timers = @ \o <<[kind |-> "title", tab |-> index],
                                     [kind |-> "release", tab |-> index]>>]

RotatorNextTab(r) ==
    IF r.isTransitioning THEN r
    ELSE RotatorSwitchTab(r, (r.currentTab + 1) % TotalTabs)

RotatorPrevTab(r) ==
    IF r.isTransitioning THEN r
    ELSE RotatorSwitchTab(r, (r.currentTab - 1 + TotalTabs) % TotalTabs)

\* startAutoRotate(), stopAutoRotate(), resetAutoRotate().
startAutoRotate(r) == [r EXCEPT !.autoRotateTimer = TRUE]

stopAutoRotate(r) == [r EXCEPT !.autoRotateTimer = FALSE]

resetAutoRotate(r) ==
    IF ~r.isPaused THEN startAutoRotate(stopAutoRotate(r))
                   ELSE stopAutoRotate(r)

\* togglePause() of the older script: without a #heroPause button,
\* pauseButton.classList throws after isPaused was flipped.
RotatorTogglePause(r) ==
    LET flipped == [r EXCEPT !.isPaused = ~@]
    IN IF ~r.pauseButton THEN [flipped EXCEPT !.raised = TRUE]
       ELSE IF flipped.isPaused
       THEN stopAutoRotate([flipped EXCEPT !.pausedClass = TRUE])
       ELSE startAutoRotate([flipped EXCEPT !.pausedClass = FALSE])

\* handleMouseEnter() and handleMouseLeave().
handleMouseEnter(r) == IF ~r.isPaused THEN stopAutoRotate(r) ELSE r

handleMouseLeave(r) == IF ~r.isPaused THEN startAutoRotate(r) ELSE r

\* init(): switchTab(0), attachEventListeners(), startAutoRotate().
RotatorInitPage ==
    /\ rotator.phase = "loading"
    /\ rotator' = startAutoRotate([RotatorSwitchTab(rotator, 0)
                                      EXCEPT !.listening = TRUE,
                                             !.phase = "ready"])
    /\ UNCHANGED <<revealVars, counterVars, hero, carousel, touch, nav, services>>

\* A call into the closure that leaves it in the state after.
RotatorCall(after) ==
    /\ rotator.phase = "ready"
    /\ rotator' = [after EXCEPT !.auto = FALSE]
    /\ UNCHANGED <<revealVars, counterVars, hero, carousel, touch, nav, services>>

\* handleTabClick on the button of TAB_NAMES[index].
RotatorClick(index) ==
    /\ rotator.listening
    /\ RotatorCall(IF rotator.isTransitioning THEN rotator
                   ELSE resetAutoRotate(RotatorSwitchTab(rotator, index)))

\* handleKeyboard of the older script.
RotatorKey(key, inViewport) ==
    /\ rotator.listening
    /\ RotatorCall(IF rotator.isTransitioning \/ ~inViewport THEN rotator
                   ELSE CASE key = "ArrowLeft" ->
                                 resetAutoRotate(RotatorPrevTab(rotator))
                          [] key = "ArrowRight" ->
                                 resetAutoRotate(RotatorNextTab(rotator))
                          [] key = " " -> RotatorTogglePause(rotator)
                          [] OTHER -> rotator)

\* A click on the pause button.
RotatorPauseClick ==
    /\ rotator.listening
    /\ rotator.pauseButton
    /\ RotatorCall(RotatorTogglePause(rotator))

\* The pointer enters and leaves #heroSection; the handlers run while they
\* are attached.
RotatorMouseEnter ==
    /\ ~rotator.hover
    /\ RotatorCall([(IF rotator.listening THEN handleMouseEnter(rotator)
                                          ELSE rotator)
                       EXCEPT !.hover = TRUE])

RotatorMouseLeave ==
    /\ rotator.hover
    /\ RotatorCall([(IF rotator.listening THEN handleMouseLeave(rotator)
                                          ELSE rotator)
                       EXCEPT !.hover = FALSE])

\* window.heroTabs of the older script.
rotator_next == RotatorCall(RotatorNextTab(rotator))

rotator_prev == RotatorCall(RotatorPrevTab(rotator))

rotator_goTo(index) == RotatorCall(RotatorSwitchTab(rotator, index))

rotator_pause ==
    RotatorCall(IF ~rotator.isPaused THEN RotatorTogglePause(rotator)
                                     ELSE rotator)

rotator_resume ==
    RotatorCall(IF rotator.isPaused THEN RotatorTogglePause(rotator)
                                    ELSE rotator)

rotator_destroy ==
    RotatorCall([stopAutoRotate(rotator) EXCEPT !.listening = FALSE])

\* The callback of setInterval (176-180), every autoRotateInterval while the
\* interval is set.
RotatorIntervalFires ==
    /\ rotator.phase = "ready"
    /\ rotator.autoRotateTimer
    /\ \E r \in {IF ~rotator.isPaused /\ ~rotator.isTransitioning
                  THEN RotatorNextTab(rotator)
                  ELSE rotator} :
          rotator' = [r EXCEPT !.auto = (r.currentTab # rotator.currentTab)]
    /\ UNCHANGED <<revealVars, counterVars, hero, carousel, touch, nav, services>>

\* The timeout that is due first: the title (250 ms) or the release of the
\* guard (imageTransitionDuration).
RotatorTimerFires ==
    /\ rotator.phase = "ready"
    /\ rotator.timers # << >>
    /\ LET t == Head(rotator.timers)
           r == [rotator EXCEPT !.timers = Tail(@)]
       IN rotator' = IF t.kind = "title"
                     THEN [r EXCEPT !.title = t.tab, !.auto = FALSE]
                     ELSE [r EXCEPT !.isTransitioning = FALSE, !.auto = FALSE]
    /\ UNCHANGED <<revealVars, counterVars, hero, carousel, touch, nav, services>>

RotatorInit ==
    /\ RevealIdle
    /\ CounterIdle
    /\ hero = Absent
    /\ carousel = Absent
    /\ touch = Absent
    /\ nav = Absent
    /\ rotator \in {RotatorLoaded(pauseButton) : pauseButton \in BOOLEAN}
    /\ services = Absent

RotatorNext ==
    \/ RotatorInitPage
    \/ \E index \in Tabs : RotatorClick(index)
    \/ \E key \in HeroKeys, inViewport \in BOOLEAN : RotatorKey(key, inViewport)
    \/ RotatorPauseClick
    \/ RotatorMouseEnter
    \/ RotatorMouseLeave
    \/ rotator_next
    \/ rotator_prev
    \/ \E index \in HeroIndexes : rotator_goTo(index)
    \/ rotator_pause
    \/ rotator_resume
    \/ rotator_destroy
    \/ RotatorIntervalFires
    \/ RotatorTimerFires

SpecRotator == RotatorInit /\ [][RotatorNext]_vars

\* C34: between a mouseenter on the hero section and the following
\* mouseleave the interval callback never changes the tab, whatever tab
\* clicks and arrow keys happen while the pointer is inside.
C34_HoverHoldsTab ==
    (rotator.phase = "ready" /\ rotator.listening /\ rotator.hover)
        => ~rotator.auto

\* ------------------------------------------------------------------------
\* services-carousel.js: the card carousel with buttons and progress bar
\* ------------------------------------------------------------------------
MobileBreakpoint == 768     \* CONFIG.breakpoints.mobile
TabletBreakpoint == 1024    \* CONFIG.breakpoints.tablet
ServicesSwipeThreshold == 50
TransitionTicks == 2        \* transitionDuration, in steps of the model's clock
MaxCards == 5

\* The numbers of .service-card elements and the window widths of the pages.
CardCounts == {2, MaxCards}
InnerWidths == {600, 900, 1200}

\* The indexes passed to goTo: every card, and some below and above.
ServicesIndexes == (0 - 1)..(MaxCards + 1)

ServicesKeys == {"ArrowLeft", "ArrowRight", "Home", "End", "Tab"}

\* The closure after the script body ran, before init(): the controls were
\* inserted (lines 52-80, neither button disabled, the pagination text of
\* the markup) and the state variables are those of lines 87-96.  since is
\* the time since the last navigation that was accepted, op the kind of the
\* last step.
ServicesLoaded(totalCards, innerWidth) ==
    [phase |-> "loading",
     listening |-> FALSE,
     totalCards |-> totalCards,
     innerWidth |-> innerWidth,
     cardsToShow |-> 3,
     currentIndex |-> 0,
     isTransitioning |-> FALSE,
     releases |-> << >>,
     resizeTimeout |-> FALSE,
     initTimer |-> FALSE,
     touchStartX |-> 0,
     touchEndX |-> 0,
     prevDisabled |-> FALSE,
     nextDisabled |-> FALSE,
     shown |-> "unset",
     animated |-> FALSE,
     progress |-> "unset",
     pagination |-> <<1, 3, 10>>,
     since |-> TransitionTicks,
     op |-> "other"]

\* getMaxIndex() and clampIndex(index).
getMaxIndex(s) == Max(0, s.totalCards - s.cardsToShow)

clampIndex_NoUpper(s, index) == Max(0, index)

clampIndex(s, index) == Max(0, Min(index, getMaxIndex(s)))

\* updateButtonStates(), updateProgress() and updatePagination() of the
\* carousel.
updateButtonStates(s) ==
    [s EXCEPT !.prevDisabled = (s.currentIndex = 0),
              !.nextDisabled = (s.currentIndex >= getMaxIndex(s))]

ServicesUpdateProgress(s) ==
    [s EXCEPT !.progress = IF getMaxIndex(s) > 0
                           THEN <<s.currentIndex, getMaxIndex(s)>>
                           ELSE <<1, 1>>]

updatePagination(s) ==
    [s EXCEPT !.pagination = <<s.currentIndex + 1,
                               Min(s.currentIndex + s.cardsToShow, s.totalCards),
                               s.totalCards>>]

\* updateCarousel(animated).
updateCarousel(s, animated) ==
    LET clamped == [s EXCEPT !.currentIndex = clampIndex(s, s.currentIndex)]
        moved == [clamped EXCEPT !.animated = animated,
                                 !.shown = clamped.currentIndex]
    IN updatePagination(ServicesUpdateProgress(updateButtonStates(moved)))

\* updateCardsToShow(), with calculateCardWidth().
updateCardsToShow(s) ==
    LET sized == [s EXCEPT !.cardsToShow =
                      IF s.innerWidth <= MobileBreakpoint THEN 1
                      ELSE IF s.innerWidth <= TabletBreakpoint THEN 2
                      ELSE 3]
    IN ServicesUpdateProgress(updateCarousel(sized, TRUE))

\* The navigation that passed the guard: the flag, the index, the redraw and
\* the timeout of transitionDuration.
ServicesAccept(s, index) ==
    [updateCarousel([s EXCEPT !.isTransitioning = TRUE,
                              !.currentIndex = index], TRUE)
        EXCEPT !.releases = Append(@, TransitionTicks),
               !.since = 0]

nextSlide_Unguarded(s) ==
    IF s.currentIndex >= getMaxIndex(s) THEN s
    ELSE ServicesAccept(s, s.currentIndex + 1)

\* nextSlide(), prevSlide() and goToIndex(index).
nextSlide(s) ==
    IF s.isTransitioning \/ s.currentIndex >= getMaxIndex(s) THEN s
    ELSE ServicesAccept(s, s.currentIndex + 1)

prevSlide(s) ==
    IF s.isTransitioning \/ s.currentIndex <= 0 THEN s
    ELSE ServicesAccept(s, s.currentIndex - 1)

goToIndex(s, index) ==
    IF s.isTransitioning \/ clampIndex(s, index) = s.currentIndex THEN s
    ELSE ServicesAccept(s, clampIndex(s, index))

\* init(): updateCardsToShow(), attachEventListeners() and the timeout of
\* 100 ms.
ServicesInitPage ==
    /\ services.phase = "loading"
    /\ services' = [updateCardsToShow(services) EXCEPT !.listening = TRUE,
                                                       !.initTimer = TRUE,
                                                       !.phase = "ready"]
    /\ UNCHANGED <<revealVars, counterVars, hero, carousel, touch, nav, rotator>>

\* A call into the closure that leaves it in the state after.
ServicesCall(after, op) ==
    /\ services.phase = "ready"
    /\ services' = [after EXCEPT !.op = op]
    /\ UNCHANGED <<revealVars, counterVars, hero, carousel, touch, nav, rotator>>

\* handlePrevClick and handleNextClick; a disabled button gets no click.
ServicesPrevClick ==
    /\ services.listening
    /\ ~services.prevDisabled
    /\ ServicesCall(prevSlide(services), "nav")

ServicesNextClick ==
    /\ services.listening
    /\ ~services.nextDisabled
    /\ ServicesCall(nextSlide(services), "nav")

\* handleKeydown; active is false without a .services-section or with the
\* section outside the viewport.
ServicesKey(key, active) ==
    /\ services.listening
    /\ ServicesCall(IF ~active THEN services
                    ELSE CASE key = "ArrowLeft" -> prevSlide(services)
                           [] key = "ArrowRight" -> nextSlide(services)
                           [] key = "Home" -> goToIndex(services, 0)
                           [] key = "End" ->
                                  goToIndex(services, getMaxIndex(services))
                           [] OTHER -> services,
                    IF active /\ key # "Tab" THEN "nav" ELSE "other")

\* handleTouchStart, handleTouchMove and handleTouchEnd of the track.
ServicesTouchStart(screenX) ==
    /\ services.listening
    /\ ServicesCall([services EXCEPT !.touchStartX = screenX,
                                     !.touchEndX = screenX], "other")

ServicesTouchMove(screenX) ==
    /\ services.listening
    /\ ServicesCall([services EXCEPT !.touchEndX = screenX], "other")

ServicesTouchEnd ==
    /\ services.listening
    /\ LET diff == services.touchStartX - services.touchEndX
           swiped == IF Abs(diff) > ServicesSwipeThreshold
                     THEN IF diff > 0 THEN nextSlide(services)
                                      ELSE prevSlide(services)
                     ELSE services
       IN ServicesCall([swiped EXCEPT !.touchStartX = 0, !.touchEndX = 0],
                       IF Abs(diff) > ServicesSwipeThreshold THEN "nav"
                                                            ELSE "other")

\* The window is resized to innerWidth; handleResize re-arms the debounce.
ServicesResize(innerWidth) ==
    /\ innerWidth # services.innerWidth
    /\ ServicesCall([services EXCEPT !.innerWidth = innerWidth,
                                     !.resizeTimeout =
                                         @ \/ services.listening], "other")

\* The debounced callback of handleResize (245-253).
ServicesResizeFires ==
    /\ services.resizeTimeout
    /\ LET updated == updateCardsToShow([services EXCEPT !.resizeTimeout = FALSE])
       IN ServicesCall(IF updated.cardsToShow # services.cardsToShow
                       THEN updateCarousel([updated EXCEPT !.currentIndex = 0],
                                           FALSE)
                       ELSE updated, "other")

\* The timeout of init() (336-339).
ServicesInitTimerFires ==
    /\ services.initTimer
    /\ ServicesCall(updateCarousel([services EXCEPT !.initTimer = FALSE], FALSE),
                    "other")

\* window.servicesCarousel.
servicesCarousel_next == ServicesCall(nextSlide(services), "nav")

servicesCarousel_prev == ServicesCall(prevSlide(services), "nav")

servicesCarousel_goTo(index) == ServicesCall(goToIndex(services, index), "nav")

servicesCarousel_refresh == ServicesCall(updateCardsToShow(services), "other")

\* destroy(): removeEventListeners() and the inline styles cleared.
servicesCarousel_destroy ==
    ServicesCall([services EXCEPT !.listening = FALSE,
                                  !.shown = "unset",
                                  !.animated = FALSE], "other")

\* The timeout of an accepted navigation is due: isTransitioning = false.
ServicesReleaseFires ==
    /\ services.releases # << >>
    /\ Head(services.releases) = 0
    /\ ServicesCall([services EXCEPT !.releases = Tail(@),
                                     !.isTransitioning = FALSE], "other")

\* Time passes while no release timeout is due.
ServicesTick ==
    /\ \A i \in DOMAIN services.releases : services.releases[i] > 0
    /\ services.releases # << >> \/ services.since < TransitionTicks
    /\ ServicesCall([services EXCEPT
                        !.releases = [i \in DOMAIN @ |-> @[i] - 1],
                        !.since = Min(@ + 1, TransitionTicks)], "other")

ServicesInit ==
    /\ RevealIdle
    /\ CounterIdle
    /\ hero = Absent
    /\ carousel = Absent
    /\ touch = Absent
    /\ nav = Absent
    /\ rotator = Absent
    /\ services \in {ServicesLoaded(totalCards, innerWidth) :
                        totalCards \in CardCounts, innerWidth \in InnerWidths}

ServicesNext ==
    \/ ServicesInitPage
    \/ servicesCarousel_next
    \/ servicesCarousel_prev
    \/ \E index \in ServicesIndexes : servicesCarousel_goTo(index)
    \/ servicesCarousel_refresh
    \/ servicesCarousel_destroy
    \/ ServicesPrevClick
    \/ ServicesNextClick
    \/ \E key \in ServicesKeys, active \in BOOLEAN : ServicesKey(key, active)
    \/ \E screenX \in ScreenXs : ServicesTouchStart(screenX)
    \/ \E screenX \in ScreenXs : ServicesTouchMove(screenX)
    \/ ServicesTouchEnd
    \/ \E innerWidth \in InnerWidths : ServicesResize(innerWidth)
    \/ ServicesResizeFires
    \/ ServicesInitTimerFires
    \/ ServicesReleaseFires
    \/ ServicesTick

SpecServices == ServicesInit /\ [][ServicesNext]_vars

C36_RequestInTransitionDropped ==
    [][(services.phase = "ready" /\ services.since < TransitionTicks
            /\ services'.op = "nav")
          => /\ services.isTransitioning /\ services'.isTransitioning
             /\ services'.currentIndex = services.currentIndex
             /\ services'.shown = services.shown
             /\ services'.releases = services.releases
             /\ services'.resizeTimeout = services.resizeTimeout
             /\ services'.initTimer = services.initTimer
             /\ services'.since = services.since]_vars

\* A request arrived one tick into a transition and was dropped.
C36_Witness ==
    /\ services.phase = "ready"
    /\ services.op = "nav"
    /\ services.since = 1
    /\ services.isTransitioning
    /\ services.releases = <<TransitionTicks - 1>>

\* ------------------------------------------------------------------------
\* ScrollReveal: the 'revealed' class and the registry
\* ------------------------------------------------------------------------
\* C37: every tracked element carries the 'revealed' class exactly when its
\* registry entry has revealed = true.
C37_ClassMatchesRegistry ==
    \A e \in DOMAIN elements : cls[e] <=> elements[e].revealed

\* ------------------------------------------------------------------------
\* CounterObserver: resetAll and the counters that were already reported
\* ------------------------------------------------------------------------
\* The observer reports the observed counter on element e as visible.
ReportVisible(e) ==
    cHandleIntersection(<<[target |-> e, isIntersecting |-> TRUE]>>)

\* resetAll() called once some counter has completed its count.
ResetAfterCount ==
    /\ \E e \in DOMAIN counters : objs[counters[e]].hasAnimated
    /\ resetAll

ReplayNext ==
    \/ CConstruct
    \/ ResetAfterCount
    \/ \E entries \in CBatches : cHandleIntersection(entries)
    \/ StartTimerFires
    \/ \E dt \in FrameSteps : AnimationFrame(dt)

SpecReplay == PairInit /\ [][ReplayNext]_vars

\* Pending timers run, animation frames keep coming, and every counter the
\* observer watches is reported visible.
FairSpecReplay ==
    /\ SpecReplay
    /\ WF_vars(StartTimerFires)
    /\ WF_vars(\E dt \in FrameSteps : AnimationFrame(dt))
    /\ \A e \in CounterElems : WF_vars(ReportVisible(e))

\* The counter on element e has a non-zero target, has not completed and
\* displays "0".
ShowsZero(e) ==
    /\ e \in DOMAIN counters
    /\ ~objs[counters[e]].hasAnimated
    /\ objs[counters[e]].targetValue.n # 0
    /\ text[e] = <<"0">>

\* C38: a counter with a non-zero target that displays "0" (after resetAll()
\* as at the start of a count) eventually ends displaying its formatted
\* target.
C38_ResetCountersAnimateAgain ==
    \A e \in CounterElems : [](ShowsZero(e) => <>Terminal(e))

====
